---- MODULE Spec2Model ----
(***************************************************************************)
(* Location resolution and enrichment pipeline of the MCP servers:         *)
(* the locations server (searchLocation, searchAllLocations) and the       *)
(* cities server (searchCity), with the Overpass, Wikipedia and Wikidata   *)
(* adapters they call and the Firestore collections they read and write.   *)
(*                                                                         *)
(* Conventions.  A JavaScript string that the code inspects (a name, a     *)
(* wikipedia tag, a wikidata id, an ele tag) is a sequence of one-character*)
(* strings; <<>> is the empty/absent string (both falsy).  An enumerated   *)
(* tag value or location type is a TLA+ string, "" when absent/null.  An   *)
(* optional value is a sequence of length at most one.  Coordinates are    *)
(* integers in units of 0.0001 degree.  A function that may throw returns  *)
(* [threw, error, value, ...].                                             *)
(***************************************************************************)
EXTENDS Integers, Sequences, FiniteSets, TLC

VARIABLES firestore, last

vars == <<firestore, last>>

(***************************************************************************)
(* Bounds of the model.                                                    *)
(***************************************************************************)
\* Documents the store may hold before inserting calls are no longer taken.
MaxDocs == 2
\* Longest Overpass response (number of elements) the environment returns.
MaxBatch == 3

(***************************************************************************)
(* Program constants.                                                      *)
(***************************************************************************)
\* Math.abs(...) < 0.001, in units of 0.0001 degree.
DedupThreshold == 10
\* Latitude range [-90, 90] and longitude range [-180, 180], same units.
LatLimit == 900000
LonLimit == 1800000
MAX_RETRY_ATTEMPTS == 3
INITIAL_RETRY_DELAY == 1000

LOCATION_TYPES ==
    { "city", "town", "village", "mountain_range", "peak",
      "alpine_hut", "attraction", "monastery", "historical_site",
      "castle", "museum", "archaeological_site", "memorial",
      "ruins", "fort", "church", "cave", "waterfall", "viewpoint" }

COLLECTIONS == { "cities", "mountains", "peaks", "natural_sites", "cultural_sites" }

\* part_000: the deprecated default collection of the locations server.
COLLECTION_NAME == "locations"
\* city-constants.js: the single collection of the cities server.
CITY_COLLECTION_NAME == "cities"

\* The keys every object literal inherits from Object.prototype: a lookup
\* with one of them finds the inherited member, a function or an object.
ObjectPrototypeKeys ==
    { "constructor", "toString", "toLocaleString", "valueOf", "hasOwnProperty",
      "isPrototypeOf", "propertyIsEnumerable", "__proto__" }

\* LOCATION_TYPE_TO_CATEGORY[t]: the category, the inherited member for an
\* inherited key (truthy, no string), "" for undefined.
LOCATION_TYPE_TO_CATEGORY(t) ==
    CASE t \in {"city", "town", "village"} -> "cities"
      [] t = "mountain_range" -> "mountains"
      [] t = "peak" -> "peaks"
      [] t \in {"cave", "waterfall"} -> "natural_sites"
      [] t \in {"alpine_hut", "viewpoint", "museum", "attraction", "castle",
                "fort", "ruins", "archaeological_site", "monastery",
                "memorial", "church", "historical_site"} -> "cultural_sites"
      [] t \in ObjectPrototypeKeys -> "[Object.prototype member]"
      [] OTHER -> ""

\* LOCATION_CATEGORIES[category].types
LOCATION_CATEGORIES(category) ==
    CASE category = "cities" -> {"city", "town", "village"}
      [] category = "mountains" -> {"mountain_range"}
      [] category = "peaks" -> {"peak"}
      [] category = "natural_sites" -> {"cave", "waterfall"}
      [] category = "cultural_sites" ->
           {"alpine_hut", "viewpoint", "museum", "attraction", "castle", "fort",
            "ruins", "archaeological_site", "monastery", "memorial", "church",
            "historical_site"}
      [] OTHER -> {}

\* A mutant of getCollectionForType: a type the table has no row for goes to
\* the default collection.
getCollectionForType_defaultCollection(locationType) ==
    IF LOCATION_TYPE_TO_CATEGORY(locationType) # ""
    THEN LOCATION_TYPE_TO_CATEGORY(locationType)
    ELSE COLLECTION_NAME

getCollectionForType(locationType) ==
    IF LOCATION_TYPE_TO_CATEGORY(locationType) # ""
    THEN LOCATION_TYPE_TO_CATEGORY(locationType)
    ELSE "cultural_sites"

(***************************************************************************)
(* Strings.                                                                *)
(***************************************************************************)
IsSpace(ch) == ch = " "

RECURSIVE TrimStart(_)
TrimStart(s) ==
    IF s # <<>> /\ IsSpace(Head(s)) THEN TrimStart(Tail(s)) ELSE s

RECURSIVE TrimEnd(_)
TrimEnd(s) ==
    IF s # <<>> /\ IsSpace(s[Len(s)]) THEN TrimEnd(SubSeq(s, 1, Len(s) - 1)) ELSE s

\* String.prototype.trim
Trim(s) == TrimEnd(TrimStart(s))

\* String.prototype.includes for a single character
Includes(s, ch) == \E i \in 1..Len(s) : s[i] = ch

\* String.prototype.startsWith for a single character
StartsWith(s, ch) == s # <<>> /\ s[1] = ch

Digits == <<"0", "1", "2", "3", "4", "5", "6", "7", "8", "9">>

IsDigit(ch) == \E i \in 1..10 : Digits[i] = ch

DigitValue(ch) == (CHOOSE i \in 1..10 : Digits[i] = ch) - 1

RECURSIVE ParseDigits(_, _)
ParseDigits(s, acc) ==
    IF s # <<>> /\ IsDigit(Head(s))
    THEN ParseDigits(Tail(s), acc * 10 + DigitValue(Head(s)))
    ELSE acc

\* parseInt on a string of the model: the leading decimal digits after
\* leading white space; <<>> stands for NaN (no leading digit).
ParseInt(s) ==
    LET t == TrimStart(s)
    IN  IF t # <<>> /\ IsDigit(Head(t)) THEN <<ParseDigits(t, 0)>> ELSE <<>>

Abs(x) == IF x < 0 THEN -x ELSE x

(***************************************************************************)
(* The OpenStreetMap data the Overpass service answers from.               *)
(***************************************************************************)
NoTags ==
    [ name |-> <<>>, place |-> "", natural |-> "", tourism |-> "",
      historic |-> "", amenity |-> "", religion |-> "", boundary |-> "",
      ele |-> <<>>, wikipedia |-> <<>>, wikidata |-> <<>> ]

\* An element as Overpass returns it: lat/lon for a node, center for a way or
\* relation queried with "out center".
Element(id, kind, lat, lon, center, tags) ==
    [ id |-> id, type |-> kind, lat |-> lat, lon |-> lon, center |-> center,
      tags |-> tags ]

OSM ==
    { \* a city with both cross-reference tags, at (42.0000, 23.0000)
      Element(1, "node", <<420000>>, <<230000>>, <<>>,
              [NoTags EXCEPT !.name = <<"a">>, !.place = "city",
                             !.wikipedia = <<"b", "g", ":", "a">>,
                             !.wikidata = <<"Q", "1">>]),
      \* a castle whose latitude is out of range (91 degrees)
      Element(2, "node", <<910000>>, <<230000>>, <<>>,
              [NoTags EXCEPT !.name = <<"a">>, !.historic = "castle"]),
      \* a peak at (42.01, 23.01) with an ele tag
      Element(3, "node", <<420100>>, <<230100>>, <<>>,
              [NoTags EXCEPT !.name = <<"a">>, !.natural = "peak",
                             !.ele = <<"2", "9">>]),
      \* a town of another name, without cross-reference tags
      Element(4, "node", <<430000>>, <<240000>>, <<>>,
              [NoTags EXCEPT !.name = <<"b">>, !.place = "town"]),
      \* a hamlet mapped as a way, centre at (42.0003, 23.0004), with a
      \* wikidata tag
      Element(5, "way", <<>>, <<>>, <<[lat |-> 420003, lon |-> 230004]>>,
              [NoTags EXCEPT !.name = <<"a">>, !.place = "hamlet",
                             !.wikidata = <<"Q", "2">>]),
      \* a waterfall relation returned without coordinates
      Element(6, "relation", <<>>, <<>>, <<>>,
              [NoTags EXCEPT !.name = <<"b">>, !.natural = "waterfall"]),
      \* a town of a third name mapped as a relation, centre at (42.5, 24.5)
      Element(7, "relation", <<>>, <<>>, <<[lat |-> 425000, lon |-> 245000]>>,
              [NoTags EXCEPT !.name = <<"c">>, !.place = "town"]) }

\* Overpass lists nodes, then ways, then relations, each by ascending id.
OSMOrder == [i \in 1..Cardinality(OSM) |-> CHOOSE e \in OSM : e.id = i]

(***************************************************************************)
(* Overpass queries: which elements each query text selects.               *)
(***************************************************************************)
NaturalValues == {"peak", "mountain_range", "cave", "waterfall"}

HistoricValues ==
    {"castle", "fort", "ruins", "archaeological_site", "monastery", "memorial", "church"}

TourismValues == {"alpine_hut", "viewpoint", "museum", "attraction"}

buildPlacesQuery(searchTerm) ==
    [e \in OSM |-> e.tags.name = searchTerm /\ e.tags.place # ""]

buildNaturalQuery(searchTerm) ==
    [e \in OSM |->
        /\ e.tags.name = searchTerm
        /\ \/ e.tags.natural \in NaturalValues
           \/ e.type = "node" /\ e.tags.natural = "cave_entrance"]

buildMountainsQuery(searchTerm) ==
    [e \in OSM |->
        /\ e.tags.name = searchTerm
        /\ \/ e.type = "relation" /\ e.tags.boundary # ""
           \/ e.type = "relation" /\ e.tags.natural # ""
           \/ e.type = "relation" /\ e.tags.place # ""
           \/ e.tags.natural = "mountain_range"]

buildPeaksQuery(searchTerm) ==
    [e \in OSM |-> e.tags.name = searchTerm /\ e.tags.natural = "peak"]

buildNaturalSitesQuery(searchTerm) ==
    [e \in OSM |->
        /\ e.tags.name = searchTerm
        /\ \/ e.tags.natural \in {"cave", "waterfall"}
           \/ e.type = "node" /\ e.tags.natural = "cave_entrance"]

buildCulturalQuery(searchTerm) ==
    [e \in OSM |->
        /\ e.tags.name = searchTerm
        /\ \/ e.tags.historic # ""
           \/ e.tags.tourism # ""
           \/ e.tags.amenity = "place_of_worship"]

buildGeneralQuery(searchTerm) ==
    [e \in OSM |->
        /\ e.tags.name = searchTerm
        /\ \/ e.tags.place # ""
           \/ e.tags.natural \in NaturalValues
           \/ e.type = "node" /\ e.tags.natural = "cave_entrance"
           \/ e.tags.historic \in HistoricValues
           \/ e.tags.tourism \in TourismValues
           \/ e.tags.amenity = "place_of_worship"]

\* typeMapping of buildTypeSpecificQuery: <<tag key, tag values>>, <<>> when
\* the type is not mapped.
typeMapping(locationType) ==
    CASE locationType \in {"city", "town", "village"} -> <<"place", {locationType}>>
      [] locationType \in {"peak", "mountain_range", "waterfall"} -> <<"natural", {locationType}>>
      [] locationType = "cave" -> <<"natural", {"cave", "cave_entrance"}>>
      [] locationType \in HistoricValues -> <<"historic", {locationType}>>
      [] locationType \in TourismValues -> <<"tourism", {locationType}>>
      [] OTHER -> <<>>

TagValue(tags, key) ==
    CASE key = "place" -> tags.place
      [] key = "natural" -> tags.natural
      [] key = "historic" -> tags.historic
      [] key = "tourism" -> tags.tourism
      [] OTHER -> ""

buildTypeSpecificQuery(searchTerm, locationType) ==
    LET mapping == typeMapping(locationType)
    IN  IF mapping = <<>>
        THEN buildGeneralQuery(searchTerm)
        ELSE [e \in OSM |->
                /\ e.tags.name = searchTerm
                /\ TagValue(e.tags, mapping[1]) \in mapping[2]]

\* The query of the cities server's searchByName: any place, natural,
\* historic, tourism or amenity element of that name.
buildCityQuery(searchTerm) ==
    [e \in OSM |->
        /\ e.tags.name = searchTerm
        /\ \/ e.tags.place # ""
           \/ e.tags.natural # ""
           \/ e.tags.historic # ""
           \/ e.tags.tourism # ""
           \/ e.tags.amenity # ""]

(***************************************************************************)
(* Overpass result normalisation.                                          *)
(***************************************************************************)
\* A mutant of determineType: the historic tag is looked at before the
\* tourism tag.
determineType_historicFirst(tags) ==
    IF tags.place # "" THEN tags.place
    ELSE IF tags.natural \in {"mountain_range", "peak", "cave", "waterfall"}
    THEN tags.natural
    ELSE IF tags.natural = "cave_entrance" THEN "cave"
    ELSE IF tags.historic \in {"castle", "fort", "ruins", "archaeological_site",
                               "monastery", "memorial", "church"}
    THEN tags.historic
    ELSE IF tags.historic # "" THEN "historical_site"
    ELSE IF tags.tourism \in {"alpine_hut", "viewpoint", "museum", "attraction"}
    THEN tags.tourism
    ELSE IF tags.tourism # "" THEN "attraction"
    ELSE IF tags.amenity = "place_of_worship"
         THEN IF tags.religion = "christian" THEN "church" ELSE "place_of_worship"
    ELSE "unknown"

determineType(tags) ==
    IF tags.place # "" THEN tags.place
    ELSE IF tags.natural = "mountain_range" THEN "mountain_range"
    ELSE IF tags.natural = "peak" THEN "peak"
    ELSE IF tags.natural = "cave_entrance" \/ tags.natural = "cave" THEN "cave"
    ELSE IF tags.natural = "waterfall" THEN "waterfall"
    ELSE IF tags.tourism = "alpine_hut" THEN "alpine_hut"
    ELSE IF tags.tourism = "viewpoint" THEN "viewpoint"
    ELSE IF tags.tourism = "museum" THEN "museum"
    ELSE IF tags.tourism = "attraction" THEN "attraction"
    ELSE IF tags.tourism # "" THEN "attraction"
    ELSE IF tags.historic = "castle" THEN "castle"
    ELSE IF tags.historic = "fort" THEN "fort"
    ELSE IF tags.historic = "ruins" THEN "ruins"
    ELSE IF tags.historic = "archaeological_site" THEN "archaeological_site"
    ELSE IF tags.historic = "monastery" THEN "monastery"
    ELSE IF tags.historic = "memorial" THEN "memorial"
    ELSE IF tags.historic = "church" THEN "church"
    ELSE IF tags.historic # "" THEN "historical_site"
    ELSE IF tags.amenity = "place_of_worship"
         THEN IF tags.religion = "christian" THEN "church" ELSE "place_of_worship"
    ELSE "unknown"

\* A JavaScript number that is present and not 0.
TruthyNumber(n) == n # <<>> /\ n[1] # 0

\* element.lat, or element.center.lat when element.lat is falsy and a centre
\* is given; likewise for lon.
ElementLat(e) ==
    IF ~TruthyNumber(e.lat) /\ e.center # <<>> THEN <<e.center[1].lat>> ELSE e.lat

ElementLon(e) ==
    IF ~TruthyNumber(e.lat) /\ e.center # <<>> THEN <<e.center[1].lon>> ELSE e.lon

ParseElement(e) ==
    [ osmId |-> e.id, osmType |-> e.type, name |-> e.tags.name,
      type |-> determineType(e.tags),
      lat |-> ElementLat(e), lon |-> ElementLon(e),
      wikipedia |-> e.tags.wikipedia, wikidata |-> e.tags.wikidata,
      osmTags |-> e.tags ]

RECURSIVE parseOverpassResults(_)
parseOverpassResults(elements) ==
    IF elements = <<>> THEN <<>>
    ELSE LET item == ParseElement(Head(elements))
             rest == parseOverpassResults(Tail(elements))
         IN  IF item.name # <<>> /\ TruthyNumber(item.lat) /\ TruthyNumber(item.lon)
             THEN <<[item EXCEPT !.lat = item.lat[1], !.lon = item.lon[1]]>> \o rest
             ELSE rest

(***************************************************************************)
(* Results of calls that may throw.                                        *)
(***************************************************************************)
Return(v) == [threw |-> FALSE, error |-> "", value |-> v]

Throw(msg) == [threw |-> TRUE, error |-> msg, value |-> <<>>]

(***************************************************************************)
(* Geo Feature Source Adapter (OverpassService).                           *)
(* `world` is the sequence of elements the service holds, in the order it  *)
(* lists them; `fault` is what happens to one request: "ok", "timeout"     *)
(* (aborted after FETCH_TIMEOUT), "status429" or "status504" (overloaded), *)
(* "status500" (any other non-2xx status).                                 *)
(***************************************************************************)
OverpassFaults == {"ok", "timeout", "status429", "status500"}

SelectElements(world, query) == SelectSeq(world, LAMBDA e : query[e])

executeQuery(query, world, fault) ==
    CASE fault = "timeout" -> Throw("Overpass API timeout")
      [] fault \in {"status429", "status504"} -> Throw("Overpass API temporarily unavailable")
      [] fault = "ok" -> Return(parseOverpassResults(SelectElements(world, query)))
      [] OTHER -> Throw("Overpass API error")

\* str.replace(/[set]/g, '\\$&'): a backslash before every character of the
\* set, the other characters as they are.
RECURSIVE ReplaceEach(_, _)
ReplaceEach(str, set) ==
    IF str = <<>> THEN <<>>
    ELSE (IF Head(str) \in set THEN <<"\\", Head(str)>> ELSE <<Head(str)>>)
         \o ReplaceEach(Tail(str), set)

\* A mutant of escapeSearchTerm: the backslashes are escaped last, after
\* the other replacements have inserted theirs.
escapeSearchTerm_backslashLast(searchTerm) ==
    ReplaceEach(
      ReplaceEach(
        ReplaceEach(
          ReplaceEach(
            ReplaceEach(searchTerm, {"\""}),
            {"[", "]"}),
          {"(", ")"}),
        {".", "*", "+", "?", "^", "$", "{", "}", "|"}),
      {"\\"})

\* escapeSearchTerm: five replacements one after the other, the backslashes
\* first.
escapeSearchTerm(searchTerm) ==
    ReplaceEach(
      ReplaceEach(
        ReplaceEach(
          ReplaceEach(
            ReplaceEach(searchTerm, {"\\"}),
            {"\""}),
          {"[", "]"}),
        {"(", ")"}),
      {".", "*", "+", "?", "^", "$", "{", "}", "|"})

\* The text `["name"="${value}"]` of a query statement.
NameFilter(value) ==
    <<"[", "\"", "n", "a", "m", "e", "\"", "=", "\"">> \o value \o <<"\"", "]">>

\* The searches of the two adapters and the query builders each one calls
\* (the cities server's searchByName has its query inline).
SearchFunctions ==
    { "searchByName", "searchCities", "searchMountains", "searchPeaks",
      "searchNaturalSites", "searchCulturalSites", "cities.searchByName" }

QueryBuilders(fn) ==
    CASE fn = "searchByName" ->
           { "buildTypeSpecificQuery", "buildPlacesQuery", "buildNaturalQuery",
             "buildCulturalQuery" }
      [] fn = "searchCities" -> { "buildPlacesQuery" }
      [] fn = "searchMountains" -> { "buildMountainsQuery" }
      [] fn = "searchPeaks" -> { "buildPeaksQuery" }
      [] fn = "searchNaturalSites" -> { "buildNaturalSitesQuery" }
      [] fn = "searchCulturalSites" -> { "buildCulturalQuery" }
      [] OTHER -> { "inline" }

\* The name filters in the text a builder returns: every statement of every
\* builder has `["name"="${searchTerm}"]`, searchTerm being the builder's
\* argument.
BuilderNameFilters(builder, searchTerm) == { NameFilter(searchTerm) }

\* The name filters of the queries a search sends for a term.  searchByName
\* of both servers computes escapedTerm and writes it to the log; every
\* search passes searchTerm to its builders.
QueryNameFilters(fn, searchTerm) ==
    LET escapedTerm == IF fn \in {"searchByName", "cities.searchByName"}
                       THEN <<escapeSearchTerm(searchTerm)>> ELSE <<>>
    IN  UNION { BuilderNameFilters(builder, searchTerm) : builder \in QueryBuilders(fn) }

\* A search result: the outcome plus the queries issued, in order.
Searched(r, stages) ==
    [threw |-> r.threw, error |-> r.error, value |-> r.value, stages |-> stages]

\* A mutant of searchByName: the places and natural stages are not wrapped
\* in try/catch, so a failed request ends the progressive search.
searchByName_uncaught(searchTerm, locationType, world, faults) ==
    IF locationType # ""
    THEN Searched(executeQuery(buildTypeSpecificQuery(searchTerm, locationType),
                               world, faults[1]), <<"type">>)
    ELSE
      LET placesResults == executeQuery(buildPlacesQuery(searchTerm), world, faults[1])
          naturalResults == executeQuery(buildNaturalQuery(searchTerm), world, faults[2])
          culturalResults == executeQuery(buildCulturalQuery(searchTerm), world, faults[3])
      IN  IF placesResults.threw \/ Len(placesResults.value) > 0
          THEN Searched(placesResults, <<"places">>)
          ELSE IF naturalResults.threw \/ Len(naturalResults.value) > 0
          THEN Searched(naturalResults, <<"places", "natural">>)
          ELSE IF culturalResults.threw
          THEN Searched(Throw("No results found"), <<"places", "natural", "cultural">>)
          ELSE Searched(culturalResults, <<"places", "natural", "cultural">>)

\* OverpassService.searchByName of the locations server; faults[i] is the
\* fate of the i-th request.
searchByName(searchTerm, locationType, world, faults) ==
    IF locationType # ""
    THEN Searched(executeQuery(buildTypeSpecificQuery(searchTerm, locationType),
                               world, faults[1]), <<"type">>)
    ELSE
      LET placesResults == executeQuery(buildPlacesQuery(searchTerm), world, faults[1])
          naturalResults == executeQuery(buildNaturalQuery(searchTerm), world, faults[2])
          culturalResults == executeQuery(buildCulturalQuery(searchTerm), world, faults[3])
      IN  IF ~placesResults.threw /\ Len(placesResults.value) > 0
          THEN Searched(placesResults, <<"places">>)
          ELSE IF ~naturalResults.threw /\ Len(naturalResults.value) > 0
          THEN Searched(naturalResults, <<"places", "natural">>)
          ELSE IF culturalResults.threw
          THEN Searched(Throw("No results found"), <<"places", "natural", "cultural">>)
          ELSE Searched(culturalResults, <<"places", "natural", "cultural">>)

\* searchCities, searchMountains, searchPeaks, searchNaturalSites and
\* searchCulturalSites: one query, and an error when it finds nothing.
SearchCategory(query, stage, notFound, world, fault) ==
    LET results == executeQuery(query, world, fault)
    IN  IF results.threw THEN Searched(results, <<stage>>)
        ELSE IF Len(results.value) = 0 THEN Searched(Throw(notFound), <<stage>>)
        ELSE Searched(results, <<stage>>)

searchCities(searchTerm, world, fault) ==
    SearchCategory(buildPlacesQuery(searchTerm), "places",
                   "No cities, towns, or villages found", world, fault)

searchMountains(searchTerm, world, fault) ==
    SearchCategory(buildMountainsQuery(searchTerm), "mountains",
                   "No mountain ranges found", world, fault)

searchPeaks(searchTerm, world, fault) ==
    SearchCategory(buildPeaksQuery(searchTerm), "peaks",
                   "No peaks found", world, fault)

searchNaturalSites(searchTerm, world, fault) ==
    SearchCategory(buildNaturalSitesQuery(searchTerm), "natural_sites",
                   "No natural sites found", world, fault)

searchCulturalSites(searchTerm, world, fault) ==
    SearchCategory(buildCulturalQuery(searchTerm), "cultural",
                   "No cultural or historic sites found", world, fault)

\* OverpassService.searchByName of the cities server: one bounding-box query;
\* every non-2xx status gives the same error.
citySearchByName(searchTerm, world, fault) ==
    CASE fault = "timeout" -> Searched(Throw("Overpass API timeout"), <<"bbox">>)
      [] fault = "ok" ->
           Searched(Return(parseOverpassResults(
                       SelectElements(world, buildCityQuery(searchTerm)))), <<"bbox">>)
      [] OTHER -> Searched(Throw("Overpass API error"), <<"bbox">>)

(***************************************************************************)
(* Narrative adapter (WikipediaService).                                   *)
(***************************************************************************)
WikipediaOutcomes == {"data", "notok", "timeout", "neterr"}

\* The part of the tag before the first ':' (split(':', 2)[0]).
RECURSIVE LangOf(_)
LangOf(tag) ==
    IF tag = <<>> \/ Head(tag) = ":" THEN <<>> ELSE <<Head(tag)>> \o LangOf(Tail(tag))

\* The page summary the Wikipedia REST API holds for a tag.
WikipediaPage(wikipediaTag) ==
    [ description |-> <<"extract">>, thumbnail |-> <<"img1">>, image |-> <<"img1">>,
      url |-> <<"wikipedia-url">>, lang |-> LangOf(wikipediaTag) ]

\* A mutant of wikipediaGetInfo: the guard on the tag is missing.
wikipediaGetInfo_unguarded(wikipediaTag, outcome) ==
    CASE outcome = "data" ->
           [threw |-> FALSE, error |-> "",
            value |-> <<WikipediaPage(wikipediaTag)>>, requests |-> 1]
      [] outcome = "notok" ->
           [threw |-> FALSE, error |-> "", value |-> <<>>, requests |-> 1]
      [] outcome = "timeout" ->
           [threw |-> TRUE, error |-> "Wikipedia API timeout",
            value |-> <<>>, requests |-> 1]
      [] OTHER ->
           [threw |-> TRUE, error |-> "Wikipedia network error",
            value |-> <<>>, requests |-> 1]

wikipediaGetInfo(wikipediaTag, outcome) ==
    IF wikipediaTag = <<>> \/ ~Includes(wikipediaTag, ":")
    THEN [threw |-> FALSE, error |-> "", value |-> <<>>, requests |-> 0]
    ELSE CASE outcome = "data" ->
                [threw |-> FALSE, error |-> "",
                 value |-> <<WikipediaPage(wikipediaTag)>>, requests |-> 1]
           [] outcome = "notok" ->
                [threw |-> FALSE, error |-> "", value |-> <<>>, requests |-> 1]
           [] outcome = "timeout" ->
                [threw |-> TRUE, error |-> "Wikipedia API timeout",
                 value |-> <<>>, requests |-> 1]
           [] OTHER ->
                [threw |-> TRUE, error |-> "Wikipedia network error",
                 value |-> <<>>, requests |-> 1]

(***************************************************************************)
(* Structured-facts adapter (WikidataService).                             *)
(* outcomes[k] is what the k-th request meets: "ok" (entity found),        *)
(* "noentity", "status5xx", "status429", "status4xx", "abort" (request     *)
(* timeout), "neterr" (ETIMEDOUT/ECONNRESET/ENOTFOUND), "other" (any other *)
(* exception, such as a malformed body).                                   *)
(***************************************************************************)
WikidataOutcomes ==
    {"ok", "noentity", "status5xx", "status429", "status4xx", "abort", "neterr", "other"}

\* The facts extracted from the entity Wikidata holds for an id.
WikidataFacts(wikidataId) ==
    [ description |-> <<"wd-description">>, population |-> <<1200>>,
      elevation |-> <<550>>, area |-> <<492>>,
      images |-> <<"img1", "img2">>, officialWebsite |-> <<"site">> ]

\* A mutant of RetryDelay: the same delay before every retry.
RetryDelay_constant(attempt) == INITIAL_RETRY_DELAY

RetryDelay(attempt) == INITIAL_RETRY_DELAY * (2 ^ (attempt - 1))

WdResult(threw, error, value, requests, delays) ==
    [threw |-> threw, error |-> error, value |-> value,
     requests |-> requests, delays |-> delays]

\* The retry loop from `attempt` on; `delays` are the sleeps taken so far.
\* A loop that ends without return or throw yields undefined ("fellthrough").
RECURSIVE WikidataLoop(_, _, _, _)
WikidataLoop(wikidataId, outcomes, attempt, delays) ==
    IF attempt > MAX_RETRY_ATTEMPTS
    THEN [WdResult(FALSE, "", <<>>, attempt - 1, delays) EXCEPT !.error = "fellthrough"]
    ELSE
      LET o == outcomes[attempt]
          isLastAttempt == attempt = MAX_RETRY_ATTEMPTS
          retry == WikidataLoop(wikidataId, outcomes, attempt + 1,
                                Append(delays, RetryDelay(attempt)))
          next == WikidataLoop(wikidataId, outcomes, attempt + 1, delays)
      IN  CASE o = "ok" -> WdResult(FALSE, "", <<WikidataFacts(wikidataId)>>, attempt, delays)
            [] o = "noentity" -> WdResult(FALSE, "", <<>>, attempt, delays)
            [] o \in {"status5xx", "status429"} ->
                 IF attempt < MAX_RETRY_ATTEMPTS THEN retry
                 ELSE WdResult(FALSE, "", <<>>, attempt, delays)
            [] o = "status4xx" -> WdResult(FALSE, "", <<>>, attempt, delays)
            [] o = "abort" ->
                 IF ~isLastAttempt THEN retry
                 ELSE WdResult(TRUE, "Wikidata API timeout after 3 attempts", <<>>,
                               attempt, delays)
            [] o = "neterr" ->
                 IF ~isLastAttempt THEN retry
                 ELSE WdResult(TRUE, "Wikidata network error (after 3 attempts)", <<>>,
                               attempt, delays)
            [] OTHER ->
                 IF isLastAttempt
                 THEN WdResult(TRUE, "Wikidata fetch error", <<>>, attempt, delays)
                 ELSE next

\* A mutant of wikidataGetInfo: the catch block does not rethrow an error of
\* another kind on the last attempt, so the loop ends and the function
\* returns undefined.
wikidataGetInfo_noRethrow(wikidataId, outcomes) ==
    IF wikidataId = <<>> \/ ~StartsWith(wikidataId, "Q")
    THEN WdResult(FALSE, "", <<>>, 0, <<>>)
    ELSE LET r == WikidataLoop(wikidataId, outcomes, 1, <<>>)
         IN  IF r.threw /\ r.error = "Wikidata fetch error"
             THEN [r EXCEPT !.threw = FALSE, !.error = "fellthrough"]
             ELSE r

\* A mutant of wikidataGetInfo: a 4xx status is handled like a 5xx one.
wikidataGetInfo_retry4xx(wikidataId, outcomes) ==
    IF wikidataId = <<>> \/ ~StartsWith(wikidataId, "Q")
    THEN WdResult(FALSE, "", <<>>, 0, <<>>)
    ELSE WikidataLoop(wikidataId,
                      [k \in 1..MAX_RETRY_ATTEMPTS |->
                          IF outcomes[k] = "status4xx" THEN "status5xx" ELSE outcomes[k]],
                      1, <<>>)

wikidataGetInfo(wikidataId, outcomes) ==
    IF wikidataId = <<>> \/ ~StartsWith(wikidataId, "Q")
    THEN WdResult(FALSE, "", <<>>, 0, <<>>)
    ELSE WikidataLoop(wikidataId, outcomes, 1, <<>>)

(***************************************************************************)
(* Validation Gate.                                                        *)
(***************************************************************************)
\* A mutant of validateCityData: the range checks on lat and lon are missing.
validateCityData_noRange(data) ==
    [ valid |-> data.name # <<>> /\ data.type # "",
      errors |-> (IF data.name = <<>> THEN <<"name">> ELSE <<>>)
                 \o (IF data.type = "" THEN <<"type">> ELSE <<>>) ]

ValidationResult(errors) == [valid |-> Len(errors) = 0, errors |-> errors]

\* city-validation.js; every coordinate of the model is a number, so the
\* typeof checks on lat and lon are the range checks alone.
validateCityData(data) ==
    ValidationResult(
        (IF data.name = <<>> THEN <<"name">> ELSE <<>>)
        \o (IF data.lat < -LatLimit \/ data.lat > LatLimit THEN <<"lat">> ELSE <<>>)
        \o (IF data.lon < -LonLimit \/ data.lon > LonLimit THEN <<"lon">> ELSE <<>>)
        \o (IF data.type = "" THEN <<"type">> ELSE <<>>))

\* JavaScript values as validateCityData may be handed them: undefined, a
\* number (in 0.0001 degree units for a coordinate), a string.
JsUndefined == [t |-> "undefined", n |-> 0, s |-> <<>>]

JsNumber(n) == [t |-> "number", n |-> n, s |-> <<>>]

JsString(s) == [t |-> "string", n |-> 0, s |-> s]

\* !x
Falsy(x) ==
    \/ x.t = "undefined"
    \/ x.t = "number" /\ x.n = 0
    \/ x.t = "string" /\ x.s = <<>>

\* A mutant of validateCityRecord: the checks stop at the first failure.
validateCityRecord_firstOnly(data) ==
    LET errors ==
          IF Falsy(data.name) \/ data.name.t # "string" THEN <<"name">>
          ELSE IF data.lat.t # "number" \/ data.lat.n < -LatLimit \/ data.lat.n > LatLimit
          THEN <<"lat">>
          ELSE IF data.lon.t # "number" \/ data.lon.n < -LonLimit \/ data.lon.n > LonLimit
          THEN <<"lon">>
          ELSE IF Falsy(data.type) \/ data.type.t # "string" THEN <<"type">>
          ELSE <<>>
    IN  [ valid |-> Len(errors) = 0, errors |-> errors,
          data |-> IF Len(errors) = 0 THEN <<data>> ELSE <<>> ]

\* validateCityData on any values of the four fields; validateCityData above
\* is its restriction to the records the pipeline builds.  errors holds the
\* field of each error; data is the record itself when valid, else null.
validateCityRecord(data) ==
    LET errors ==
          (IF Falsy(data.name) \/ data.name.t # "string" THEN <<"name">> ELSE <<>>)
          \o (IF data.lat.t # "number" \/ data.lat.n < -LatLimit \/ data.lat.n > LatLimit
              THEN <<"lat">> ELSE <<>>)
          \o (IF data.lon.t # "number" \/ data.lon.n < -LonLimit \/ data.lon.n > LonLimit
              THEN <<"lon">> ELSE <<>>)
          \o (IF Falsy(data.type) \/ data.type.t # "string" THEN <<"type">> ELSE <<>>)
    IN  [ valid |-> Len(errors) = 0, errors |-> errors,
          data |-> IF Len(errors) = 0 THEN <<data>> ELSE <<>> ]

\* location-validation.js of the locations server: the four checks of the
\* Validation Gate (name, latitude, longitude, type), all collected.
validateLocationData(data) ==
    ValidationResult(
        (IF data.name = <<>> THEN <<"name">> ELSE <<>>)
        \o (IF data.lat < -LatLimit \/ data.lat > LatLimit THEN <<"lat">> ELSE <<>>)
        \o (IF data.lon < -LonLimit \/ data.lon > LonLimit THEN <<"lon">> ELSE <<>>)
        \o (IF data.type = "" THEN <<"type">> ELSE <<>>))

(***************************************************************************)
(* Merge of the OSM feature with the enrichment data.                      *)
(***************************************************************************)
\* a || b on optional values whose present values are truthy
OrElse(a, b) == IF a # <<>> THEN a ELSE b

\* x?.field for an optional record x
Field(x, f) == IF x = <<>> THEN <<>> ELSE x[1][f]

\* a number kept only when truthy
IfTruthy(n) == IF TruthyNumber(n) THEN n ELSE <<>>

\* a string kept only when truthy (present and not empty)
IfText(x) == IF x # <<>> /\ x[1] # "" THEN x ELSE <<>>

\* [...].filter(Boolean) on a list of strings
FilterBoolean(list) == SelectSeq(list, LAMBDA u : u # "")

MergeData(osmData, wikipediaData, wikidataData) ==
    [ name |-> osmData.name,
      type |-> osmData.type,
      lat |-> osmData.lat,
      lon |-> osmData.lon,
      osmId |-> osmData.osmId,
      osmType |-> osmData.osmType,
      osmTags |-> osmData.osmTags,
      description |-> OrElse(IfText(Field(wikipediaData, "description")),
                             IfText(Field(wikidataData, "description"))),
      wikipediaUrl |-> IfText(Field(wikipediaData, "url")),
      wikipediaLang |-> Field(wikipediaData, "lang"),
      population |-> IfTruthy(Field(wikidataData, "population")),
      elevation |-> OrElse(IfTruthy(Field(wikidataData, "elevation")),
                           IF osmData.osmTags.ele # <<>>
                           THEN ParseInt(osmData.osmTags.ele) ELSE <<>>),
      area |-> IfTruthy(Field(wikidataData, "area")),
      officialWebsite |-> IfText(Field(wikidataData, "officialWebsite")),
      images |-> FilterBoolean(
                   Field(wikipediaData, "image") \o Field(wikipediaData, "thumbnail")
                   \o (IF wikidataData = <<>> THEN <<>> ELSE wikidataData[1].images)),
      wikidataId |-> osmData.wikidata,
      wikipediaTag |-> osmData.wikipedia,
      source |-> "osm" ]

Enriched(threw, error, value, wp, wd, absorbed) ==
    [ threw |-> threw, error |-> error, value |-> value,
      wikipediaRequests |-> wp, wikidataRequests |-> wd, absorbed |-> absorbed ]

\* A mutant of enrichLocationData: the Wikipedia call is not wrapped in
\* try/catch, so its exception leaves the function.
enrichLocationData_uncaught(osmData, wpOutcome, wdOutcomes) ==
    LET wp == IF osmData.wikipedia # <<>>
              THEN wikipediaGetInfo(osmData.wikipedia, wpOutcome)
              ELSE [threw |-> FALSE, error |-> "", value |-> <<>>, requests |-> 0]
        wd == IF osmData.wikidata # <<>>
              THEN wikidataGetInfo(osmData.wikidata, wdOutcomes)
              ELSE WdResult(FALSE, "", <<>>, 0, <<>>)
    IN  IF wp.threw
        THEN Enriched(TRUE, wp.error, <<>>, wp.requests, 0, 0)
        ELSE Enriched(FALSE, "",
                      <<MergeData(osmData, wp.value, IF wd.threw THEN <<>> ELSE wd.value)>>,
                      wp.requests, wd.requests, IF wd.threw THEN 1 ELSE 0)

\* enrichLocationData of the locations server: each adapter is called only
\* when its tag is present, and each call sits in its own try/catch.
enrichLocationData(osmData, wpOutcome, wdOutcomes) ==
    LET wp == IF osmData.wikipedia # <<>>
              THEN wikipediaGetInfo(osmData.wikipedia, wpOutcome)
              ELSE [threw |-> FALSE, error |-> "", value |-> <<>>, requests |-> 0]
        wd == IF osmData.wikidata # <<>>
              THEN wikidataGetInfo(osmData.wikidata, wdOutcomes)
              ELSE WdResult(FALSE, "", <<>>, 0, <<>>)
        wikipediaData == IF wp.threw THEN <<>> ELSE wp.value
        wikidataData == IF wd.threw THEN <<>> ELSE wd.value
    IN  Enriched(FALSE, "", <<MergeData(osmData, wikipediaData, wikidataData)>>,
                 wp.requests, wd.requests,
                 (IF wp.threw THEN 1 ELSE 0) + (IF wd.threw THEN 1 ELSE 0))

\* Steps 3 to 5 of searchCity: the Wikipedia call is awaited bare, the
\* Wikidata call inside try/catch.
cityEnrich(osmData, wpOutcome, wdOutcomes) ==
    LET wp == IF osmData.wikipedia # <<>>
              THEN wikipediaGetInfo(osmData.wikipedia, wpOutcome)
              ELSE [threw |-> FALSE, error |-> "", value |-> <<>>, requests |-> 0]
        wd == IF osmData.wikidata # <<>>
              THEN wikidataGetInfo(osmData.wikidata, wdOutcomes)
              ELSE WdResult(FALSE, "", <<>>, 0, <<>>)
    IN  IF wp.threw
        THEN Enriched(TRUE, wp.error, <<>>, wp.requests, 0, 0)
        ELSE Enriched(FALSE, "",
                      <<MergeData(osmData, wp.value, IF wd.threw THEN <<>> ELSE wd.value)>>,
                      wp.requests, wd.requests, IF wd.threw THEN 1 ELSE 0)

(***************************************************************************)
(* The persistent store.  firestore is the sequence of documents in the    *)
(* order they were added; a document is [collection, id, data].  Both      *)
(* servers open the same Firestore project, so the "cities" collection is  *)
(* one collection.                                                         *)
(***************************************************************************)
\* A mutant of CacheQuery: the type filter is not applied.
CacheQuery_ignoresType(collectionName, normalizedName, locationType) ==
    { i \in 1..Len(firestore) :
        /\ firestore[i].collection = collectionName
        /\ firestore[i].data.name = normalizedName }

\* A mutant of CacheQuery: the lookup goes to the deprecated default
\* collection, whatever collection was asked for.
CacheQuery_defaultCollection(collectionName, normalizedName, locationType) ==
    { i \in 1..Len(firestore) :
        /\ firestore[i].collection = "locations"
        /\ firestore[i].data.name = normalizedName
        /\ (locationType # "" => firestore[i].data.type = locationType) }

\* firestore.collection(c).where('name', '==', name) with, when a type is
\* given, .where('type', '==', type): the matching documents.
CacheQuery(collectionName, normalizedName, locationType) ==
    { i \in 1..Len(firestore) :
        /\ firestore[i].collection = collectionName
        /\ firestore[i].data.name = normalizedName
        /\ (locationType # "" => firestore[i].data.type = locationType) }

\* A mutant of Add: the document is written twice.
Add_twice(store, collectionName, data) ==
    store \o << [collection |-> collectionName, id |-> Len(store) + 1, data |-> data],
                [collection |-> collectionName, id |-> Len(store) + 2, data |-> data] >>

\* A mutant of Add: the insert takes the place of the newest record of the
\* store.
Add_overwrite(store, collectionName, data) ==
    IF store = <<>>
    THEN <<[collection |-> collectionName, id |-> 1, data |-> data]>>
    ELSE [store EXCEPT ![Len(store)] =
             [collection |-> collectionName, id |-> Len(store), data |-> data]]

\* A mutant of Add: an insert-if-absent, which writes nothing when the
\* collection holds a record of that name already.
Add_unlessPresent(store, collectionName, data) ==
    IF \E i \in 1..Len(store) :
          store[i].collection = collectionName /\ store[i].data.name = data.name
    THEN store
    ELSE Append(store, [collection |-> collectionName, id |-> Len(store) + 1, data |-> data])

\* firestore.collection(c).add(data): the store after the insert; the store
\* assigns the id.
Add(store, collectionName, data) ==
    Append(store, [collection |-> collectionName, id |-> Len(store) + 1, data |-> data])

\* A mutant of FreshResult: the record is returned under the deprecated
\* collection name instead of the collection it was stored in.
FreshResult_deprecatedCollection(data, id, collectionName) ==
    [ record |-> data, id |-> id, collection |-> COLLECTION_NAME ]

\* A mutant of CachedResult: the record is returned as stored, its source
\* not overwritten.
CachedResult_unmarked(doc, collectionName) ==
    [ record |-> doc.data, id |-> doc.id, collection |-> collectionName ]

\* What a call returns for a document: { ...data, id, source?, collection? }.
CachedResult(doc, collectionName) ==
    [ record |-> [doc.data EXCEPT !.source = "cache"], id |-> doc.id,
      collection |-> collectionName ]

FreshResult(data, id, collectionName) ==
    [ record |-> data, id |-> id, collection |-> collectionName ]

(***************************************************************************)
(* The record of the last call: its arguments, how it ended, what it       *)
(* returned and what it did on the way.  processed lists, for a batch, each *)
(* feature in turn with what became of it ("duplicate", "rejected",        *)
(* "persisted") and the enrichment requests made for it; found holds, once *)
(* the Overpass search of a batch has returned, the features it returned   *)
(* in its order; errorTerm holds the name a handler's own error quotes.    *)
(***************************************************************************)
NoCall ==
    [ op |-> "none", name |-> [isString |-> FALSE, str |-> <<>>],
      type |-> "", category |-> "",
      outcome |-> "ok", error |-> "", results |-> <<>>,
      cacheQueries |-> 0, cacheHit |-> FALSE,
      overpassRequests |-> 0, wikipediaRequests |-> 0, wikidataRequests |-> 0,
      absorbed |-> 0, validations |-> 0, rejected |-> 0, writes |-> <<>>,
      processed |-> <<>>, found |-> <<>>, errorTerm |-> <<>> ]

Call(op, input, locationType, category) ==
    [NoCall EXCEPT !.op = op, !.name = input, !.type = locationType,
                   !.category = category]

Failed(call, msg) == [call EXCEPT !.outcome = "error", !.error = msg]

\* throw new Error(`... for "${normalizedName}"`)
FailedFor(call, msg, term) == [Failed(call, msg) EXCEPT !.errorTerm = <<term>>]

(***************************************************************************)
(* What the callers and the environment may do during one call.            *)
(***************************************************************************)
\* A name argument: not a string at all (absent, null, a number), or a string.
NameInputs ==
    { [isString |-> FALSE, str |-> <<>>],
      [isString |-> TRUE, str |-> <<>>],
      [isString |-> TRUE, str |-> <<" ">>],
      [isString |-> TRUE, str |-> <<" ", "a">>],
      [isString |-> TRUE, str |-> <<"b">>] }

TypeInputs == {"city", "historical_site"}

\* The (type, category) pairs the tool handlers pass.
Modes ==
    { [type |-> t, category |-> ""] : t \in TypeInputs \cup {""} }
    \cup { [type |-> "", category |-> c] : c \in COLLECTIONS }

\* A mode of each kind, for the runs of both servers together.
FewModes ==
    { [type |-> "city", category |-> ""],
      [type |-> "", category |-> ""],
      [type |-> "", category |-> "cities"],
      [type |-> "", category |-> "cultural_sites"] }

\* The same with a type that has no query of its own, whose search returns
\* features of every kind: the modes of the batch runs.
BatchModes == FewModes \cup { [type |-> "historical_site", category |-> ""] }

\* The names passed to the tools of one category.
CategoryNameInputs ==
    { [isString |-> TRUE, str |-> <<"a">>], [isString |-> TRUE, str |-> <<"c">>] }

\* The names searched once trimmed.
Terms == { Trim(n.str) : n \in NameInputs \cup CategoryNameInputs }

\* The elements of a given name the service may hold, in its order.
Worlds(term) ==
    { SelectSeq(OSMOrder, LAMBDA e : e \in A) :
        A \in { B \in SUBSET { e \in OSM : e.tags.name = term } :
                  Cardinality(B) <= MaxBatch } }

\* The fates of the three Overpass requests of a progressive search.
ProgressiveFaults ==
    { <<"ok", "ok", "ok">>,
      <<"timeout", "ok", "ok">>,
      <<"status500", "timeout", "ok">>,
      <<"timeout", "timeout", "timeout">>,
      <<"status429", "status429", "status429">> }

\* The fates of the Overpass requests of one search: a search with a type or
\* a category makes one request.
FaultScenarios(locationType, category) ==
    IF locationType = "" /\ category = ""
    THEN ProgressiveFaults
    ELSE { <<f, "ok", "ok">> : f \in OverpassFaults }

\* The fates of the (up to three) Wikidata requests of one getInfo: facts at
\* once, no facts (a 4xx status), every attempt aborted.
WikidataScenarios ==
    { <<"ok", "ok", "ok">>,
      <<"status4xx", "ok", "ok">>,
      <<"abort", "abort", "abort">> }

\* The fates <<Wikipedia outcome, Wikidata outcomes>> of the enrichment of one
\* feature: every combination of data / nothing / thrown, or both sources up
\* and both sources down only.
AllFates == {"data", "notok", "timeout"} \X WikidataScenarios

FewFates == { <<"data", <<"ok", "ok", "ok">>>>, <<"timeout", <<"abort", "abort", "abort">>>> }

\* The fates worth choosing for a feature: those of the requests its tags
\* cause.
FateChoices(osmData, fates) ==
    { << IF osmData.wikipedia # <<>> THEN fate[1] ELSE "data",
         IF osmData.wikidata # <<>> THEN fate[2] ELSE <<"ok", "ok", "ok">> >> :
        fate \in fates }

(***************************************************************************)
(* Resolution Orchestrator of the locations server.                        *)
(***************************************************************************)
\* The collection the cache is looked up in.
LookupCollection(locationType, category) ==
    IF locationType # "" THEN getCollectionForType(locationType)
    ELSE IF category # "" THEN category
    ELSE COLLECTION_NAME

\* Step 2 of searchLocation and searchAllLocations: the Overpass search the
\* arguments select.
OverpassSearch(normalizedName, locationType, category, world, faults) ==
    IF locationType # "" THEN searchByName(normalizedName, locationType, world, faults)
    ELSE IF category = "cities" THEN searchCities(normalizedName, world, faults[1])
    ELSE IF category = "mountains" THEN searchMountains(normalizedName, world, faults[1])
    ELSE IF category = "peaks" THEN searchPeaks(normalizedName, world, faults[1])
    ELSE IF category = "natural_sites" THEN searchNaturalSites(normalizedName, world, faults[1])
    ELSE IF category = "cultural_sites" THEN searchCulturalSites(normalizedName, world, faults[1])
    ELSE searchByName(normalizedName, locationType, world, faults)

\* Every way the Overpass search of a call can end, over the data the
\* service may hold and the fates of its requests.
SearchOutcomes ==
    [ term \in Terms, mode \in Modes |->
        { OverpassSearch(term, mode.type, mode.category, world, faults) :
            world \in Worlds(term),
            faults \in FaultScenarios(mode.type, mode.category) } ]

\* What searchLocation and searchCity read of a search: whether it threw,
\* whether it found anything, and its first result.
FirstOnly(osm) ==
    [osm EXCEPT !.value = IF Len(@) = 0 THEN <<>> ELSE <<@[1]>>]

FirstOutcomes ==
    [ term \in Terms, mode \in Modes |->
        { FirstOnly(osm) : osm \in SearchOutcomes[term, mode] } ]

CitySearchOutcomes ==
    [ term \in Terms |->
        { FirstOnly(citySearchByName(term, world, fault)) :
            world \in Worlds(term), fault \in OverpassFaults } ]

Init ==
    /\ firestore = <<>>
    /\ last = NoCall

\* The end of searchLocation: validate, then save and return.
ValidateAndSave(fetched, enrichedData, actualCollection) ==
    LET validation == validateLocationData(enrichedData)
        validated == [fetched EXCEPT !.validations = 1]
    IN
    IF ~validation.valid
    THEN /\ last' = Failed([validated EXCEPT !.rejected = 1], "Invalid location data")
         /\ UNCHANGED firestore
    ELSE /\ Len(firestore) < MaxDocs
         /\ firestore' = Add(firestore, actualCollection, enrichedData)
         /\ last' = [validated EXCEPT
                       !.results = <<FreshResult(enrichedData, Len(firestore) + 1,
                                                 actualCollection)>>,
                       !.writes = <<[collection |-> actualCollection,
                                     id |-> Len(firestore) + 1]>>]

SearchLocation(input, locationType, category, fates) ==
    LET call == Call("searchLocation", input, locationType, category)
    IN
    IF ~input.isString \/ input.str = <<>>
    THEN /\ last' = Failed(call, "Location name is required")
         /\ UNCHANGED firestore
    ELSE
      LET normalizedName == Trim(input.str)
          collectionName == LookupCollection(locationType, category)
          cacheSnapshot == CacheQuery(collectionName, normalizedName, locationType)
          queried == [call EXCEPT !.cacheQueries = 1]
      IN
      IF cacheSnapshot # {}
      THEN \* limit(1): one of the matching documents
           \E i \in cacheSnapshot :
             /\ last' = [queried EXCEPT !.cacheHit = TRUE,
                            !.results = <<CachedResult(firestore[i], collectionName)>>]
             /\ UNCHANGED firestore
      ELSE
        \E osm \in FirstOutcomes[normalizedName,
                                 [type |-> locationType, category |-> category]] :
          LET asked == [queried EXCEPT !.overpassRequests = Len(osm.stages)]
          IN
          IF osm.threw
          THEN /\ last' = Failed(asked, osm.error)
               /\ UNCHANGED firestore
          ELSE IF Len(osm.value) = 0
          THEN /\ last' = FailedFor(asked, "No results found", normalizedName)
               /\ UNCHANGED firestore
          ELSE
            LET osmData == osm.value[1]
                actualCollection == getCollectionForType(osmData.type)
            IN
            \E fate \in FateChoices(osmData, fates) :
              LET enriched == enrichLocationData(osmData, fate[1], fate[2])
                  fetched == [asked EXCEPT
                                !.wikipediaRequests = enriched.wikipediaRequests,
                                !.wikidataRequests = enriched.wikidataRequests,
                                !.absorbed = enriched.absorbed]
              IN
              IF enriched.threw
              THEN /\ last' = Failed(fetched, enriched.error)
                   /\ UNCHANGED firestore
              ELSE ValidateAndSave(fetched, enriched.value[1], actualCollection)

\* A mutant of isDuplicate: no feature is taken for a duplicate.
isDuplicate_never(results, osmData) == FALSE

\* results.some(r => |r.lat - osmData.lat| < 0.001 && |r.lon - osmData.lon| < 0.001)
isDuplicate(results, osmData) ==
    \E k \in 1..Len(results) :
        /\ Abs(results[k].record.lat - osmData.lat) < DedupThreshold
        /\ Abs(results[k].record.lon - osmData.lon) < DedupThreshold

\* A mutant of ProcessResults: a feature that fails validation ends the call
\* with the validation error, as in searchLocation.
RECURSIVE ProcessResults_abortOnInvalid(_, _, _)
ProcessResults_abortOnInvalid(osmResults, acc, fateOf) ==
    IF osmResults = <<>> \/ acc.call.outcome = "error" THEN acc
    ELSE
      LET osmData == Head(osmResults)
          Step(fate, requests) ==
              [ osmId |-> osmData.osmId, lat |-> osmData.lat, lon |-> osmData.lon,
                fate |-> fate, requests |-> requests ]
      IN
      IF isDuplicate(acc.call.results, osmData)
      THEN ProcessResults_abortOnInvalid(Tail(osmResults),
               [acc EXCEPT !.call.processed = Append(@, Step("duplicate", 0))],
               Tail(fateOf))
      ELSE
        LET enriched == enrichLocationData(osmData, Head(fateOf)[1], Head(fateOf)[2])
            enrichedData == enriched.value[1]
            requests == enriched.wikipediaRequests + enriched.wikidataRequests
            validated == [acc.call EXCEPT
                            !.wikipediaRequests = @ + enriched.wikipediaRequests,
                            !.wikidataRequests = @ + enriched.wikidataRequests,
                            !.absorbed = @ + enriched.absorbed,
                            !.validations = @ + 1]
            actualCollection == getCollectionForType(osmData.type)
            id == Len(acc.store) + 1
        IN
        IF ~validateLocationData(enrichedData).valid
        THEN [acc EXCEPT !.call =
                 Failed([validated EXCEPT !.rejected = @ + 1,
                            !.processed = Append(@, Step("rejected", requests))],
                        "Invalid location data")]
        ELSE ProcessResults_abortOnInvalid(Tail(osmResults),
                 [store |-> Add(acc.store, actualCollection, enrichedData),
                  failAt |-> acc.failAt,
                  call |-> [validated EXCEPT
                              !.results = Append(@, FreshResult(enrichedData, id,
                                                                actualCollection)),
                              !.writes = Append(@, [collection |-> actualCollection,
                                                    id |-> id]),
                              !.processed = Append(@, Step("persisted", requests))]],
                 Tail(fateOf))

\* A mutant of ProcessResults: when an insert fails, the records the call
\* has inserted are taken out of the store again.
RECURSIVE ProcessResults_rollback(_, _, _)
ProcessResults_rollback(osmResults, acc, fateOf) ==
    IF osmResults = <<>> \/ acc.call.outcome = "error" THEN acc
    ELSE
      LET osmData == Head(osmResults)
          rest == Tail(osmResults)
          fateRest == Tail(fateOf)
          Step(fate, requests) ==
              [ osmId |-> osmData.osmId, lat |-> osmData.lat, lon |-> osmData.lon,
                fate |-> fate, requests |-> requests ]
      IN
      IF isDuplicate(acc.call.results, osmData)
      THEN ProcessResults_rollback(rest,
               [acc EXCEPT !.call.processed = Append(@, Step("duplicate", 0))], fateRest)
      ELSE
        LET enriched == enrichLocationData(osmData, Head(fateOf)[1], Head(fateOf)[2])
            fetched == [acc.call EXCEPT
                          !.wikipediaRequests = @ + enriched.wikipediaRequests,
                          !.wikidataRequests = @ + enriched.wikidataRequests,
                          !.absorbed = @ + enriched.absorbed]
        IN
        IF enriched.threw
        THEN [acc EXCEPT !.call = Failed(fetched, enriched.error)]
        ELSE
          LET enrichedData == enriched.value[1]
              validation == validateLocationData(enrichedData)
              validated == [fetched EXCEPT !.validations = @ + 1]
              actualCollection == getCollectionForType(osmData.type)
              id == Len(acc.store) + 1
              requests == enriched.wikipediaRequests + enriched.wikidataRequests
          IN
          IF ~validation.valid
          THEN ProcessResults_rollback(rest,
                   [acc EXCEPT !.call =
                       [validated EXCEPT !.rejected = @ + 1,
                           !.processed = Append(@, Step("rejected", requests))]],
                   fateRest)
          ELSE IF acc.failAt = Len(acc.call.processed) + 1
          THEN \* the insert throws: the loop and the call end here
               [acc EXCEPT !.store = SubSeq(@, 1, Len(@) - Len(acc.call.writes)),
                           !.call =
                   Failed([validated EXCEPT
                             !.processed = Append(@, Step("failed", requests))],
                          "Firestore unavailable")]
          ELSE ProcessResults_rollback(rest,
                   [store |-> Add(acc.store, actualCollection, enrichedData),
                    failAt |-> acc.failAt,
                    call |-> [validated EXCEPT
                                !.results = Append(@, FreshResult(enrichedData, id,
                                                                  actualCollection)),
                                !.writes = Append(@, [collection |-> actualCollection,
                                                      id |-> id]),
                                !.processed = Append(@, Step("persisted", requests))]],
                   fateRest)

\* The loop of searchAllLocations over the Overpass results.  acc carries the
\* store, the call record (with the results so far) and failAt, the position
\* in the batch of the feature whose insert the store refuses (0: none);
\* fateOf[k] is the fate of the enrichment requests of the k-th remaining
\* feature.
RECURSIVE ProcessResults(_, _, _)
ProcessResults(osmResults, acc, fateOf) ==
    IF osmResults = <<>> \/ acc.call.outcome = "error" THEN acc
    ELSE
      LET osmData == Head(osmResults)
          rest == Tail(osmResults)
          fateRest == Tail(fateOf)
          Step(fate, requests) ==
              [ osmId |-> osmData.osmId, lat |-> osmData.lat, lon |-> osmData.lon,
                fate |-> fate, requests |-> requests ]
      IN
      IF isDuplicate(acc.call.results, osmData)
      THEN ProcessResults(rest,
               [acc EXCEPT !.call.processed = Append(@, Step("duplicate", 0))], fateRest)
      ELSE
        LET enriched == enrichLocationData(osmData, Head(fateOf)[1], Head(fateOf)[2])
            fetched == [acc.call EXCEPT
                          !.wikipediaRequests = @ + enriched.wikipediaRequests,
                          !.wikidataRequests = @ + enriched.wikidataRequests,
                          !.absorbed = @ + enriched.absorbed]
        IN
        IF enriched.threw
        THEN [acc EXCEPT !.call = Failed(fetched, enriched.error)]
        ELSE
          LET enrichedData == enriched.value[1]
              validation == validateLocationData(enrichedData)
              validated == [fetched EXCEPT !.validations = @ + 1]
              actualCollection == getCollectionForType(osmData.type)
              id == Len(acc.store) + 1
              requests == enriched.wikipediaRequests + enriched.wikidataRequests
          IN
          IF ~validation.valid
          THEN ProcessResults(rest,
                   [acc EXCEPT !.call =
                       [validated EXCEPT !.rejected = @ + 1,
                           !.processed = Append(@, Step("rejected", requests))]],
                   fateRest)
          ELSE IF acc.failAt = Len(acc.call.processed) + 1
          THEN \* the insert throws: the loop and the call end here
               [acc EXCEPT !.call =
                   Failed([validated EXCEPT
                             !.processed = Append(@, Step("failed", requests))],
                          "Firestore unavailable")]
          ELSE ProcessResults(rest,
                   [store |-> Add(acc.store, actualCollection, enrichedData),
                    failAt |-> acc.failAt,
                    call |-> [validated EXCEPT
                                !.results = Append(@, FreshResult(enrichedData, id,
                                                                  actualCollection)),
                                !.writes = Append(@, [collection |-> actualCollection,
                                                      id |-> id]),
                                !.processed = Append(@, Step("persisted", requests))]],
                   fateRest)

\* The fates of the features of a batch: a choice for each one.
RECURSIVE BatchFates(_, _)
BatchFates(osmResults, fates) ==
    IF osmResults = <<>> THEN { <<>> }
    ELSE { <<fate>> \o rest : fate \in FateChoices(Head(osmResults), fates),
                              rest \in BatchFates(Tail(osmResults), fates) }

\* searchAllLocations; failAt is the position in the batch of the feature
\* whose insert the store refuses (0: every insert succeeds).
SearchAllLocationsWith(input, locationType, category, fates, failAt) ==
    LET call == Call("searchAllLocations", input, locationType, category)
    IN
    IF ~input.isString \/ input.str = <<>>
    THEN /\ last' = Failed(call, "Location name is required")
         /\ UNCHANGED firestore
    ELSE
      LET normalizedName == Trim(input.str)
          collectionName == LookupCollection(locationType, category)
          cacheSnapshot == CacheQuery(collectionName, normalizedName, locationType)
          queried == [call EXCEPT !.cacheQueries = 1]
      IN
      IF cacheSnapshot # {}
      THEN /\ last' = [queried EXCEPT !.cacheHit = TRUE,
                         !.results = [k \in 1..Cardinality(cacheSnapshot) |->
                            CachedResult(
                              SelectSeq(firestore, LAMBDA d : d.id \in cacheSnapshot)[k],
                              collectionName)]]
           /\ UNCHANGED firestore
      ELSE
        \E osm \in SearchOutcomes[normalizedName,
                                  [type |-> locationType, category |-> category]] :
          LET asked == [queried EXCEPT !.overpassRequests = Len(osm.stages)]
          IN
          IF osm.threw
          THEN /\ last' = Failed(asked, osm.error)
               /\ UNCHANGED firestore
          ELSE
            \E fateOf \in BatchFates(osm.value, fates) :
              LET returned == [asked EXCEPT !.found =
                                  <<[k \in 1..Len(osm.value) |-> osm.value[k].osmId]>>]
                  done == ProcessResults(osm.value,
                                         [store |-> firestore, failAt |-> failAt,
                                          call |-> returned], fateOf)
              IN
              /\ Len(done.store) <= MaxDocs
              /\ firestore' = done.store
              /\ last' = IF done.call.outcome = "ok" /\ Len(done.call.results) = 0
                         THEN FailedFor(done.call, "No results found", normalizedName)
                         ELSE done.call

\* searchAllLocations with the store accepting every insert.
SearchAllLocations(input, locationType, category, fates) ==
    SearchAllLocationsWith(input, locationType, category, fates, 0)

(***************************************************************************)
(* get_location_by_id of the locations server.                             *)
(***************************************************************************)
\* firestore.collection(collectionName).doc(locationId).get(): the document,
\* if it exists.
GetDoc(store, collectionName, locationId) ==
    SelectSeq(store, LAMBDA d : d.collection = collectionName /\ d.id = locationId)

\* The collections getLocationById goes through when it is given none.
SearchedCollections == <<"cities", "mountains", "natural_sites", "cultural_sites">>

getLocationById(store, locationId, collectionName) ==
    IF collectionName # ""
    THEN LET doc == GetDoc(store, collectionName, locationId)
         IN  IF doc = <<>> THEN Throw("Location not found in collection")
             ELSE Return(<<FreshResult(doc[1].data, doc[1].id, collectionName)>>)
    ELSE
      LET holding == SelectSeq(SearchedCollections,
                               LAMBDA c : GetDoc(store, c, locationId) # <<>>)
      IN  IF holding = <<>> THEN Throw("Location not found")
          ELSE LET doc == GetDoc(store, holding[1], locationId)
               IN  Return(<<FreshResult(doc[1].data, doc[1].id, holding[1])>>)

\* The ids a caller passes: none, the ids the store may have given out, and
\* one it has not.
IdInputs == { <<>> } \cup { <<i>> : i \in 1..(MaxDocs + 1) }

\* The get_location_by_id tool: the record of the call holds the arguments
\* and what the caller got.
GetLocationById(idInput, collectionName) ==
    LET call == [ op |-> "getLocationById", id |-> idInput,
                  collection |-> collectionName,
                  outcome |-> "ok", error |-> "", results |-> <<>> ]
    IN
    /\ last' = IF idInput = <<>>
               THEN [call EXCEPT !.outcome = "error", !.error = "Location ID is required"]
               ELSE LET got == getLocationById(firestore, idInput[1], collectionName)
                    IN  IF got.threw
                        THEN [call EXCEPT !.outcome = "error", !.error = got.error]
                        ELSE [call EXCEPT !.results = got.value]
    /\ UNCHANGED firestore

(***************************************************************************)
(* list_locations and the CallTool handler of the locations server.        *)
(***************************************************************************)
\* The names of the model in the order of orderBy('name').
NameOrder == << <<>>, <<"a">>, <<"b">>, <<"c">> >>

RECURSIVE OrderByName(_, _)
OrderByName(docs, names) ==
    IF names = <<>> THEN <<>>
    ELSE SelectSeq(docs, LAMBDA d : d.data.name = Head(names))
         \o OrderByName(docs, Tail(names))

\* params.limit || 50
DefaultLimit == 50

\* listLocations(params): the documents of a collection (of the cities when
\* none is given), of one type when a type is given, by name, up to a limit.
listLocations(store, limitInput, collectionInput, typeInput) ==
    LET limit == IF limitInput = <<>> \/ limitInput[1] = 0 THEN DefaultLimit
                 ELSE limitInput[1]
        collectionName == IF collectionInput = "" THEN "cities" ELSE collectionInput
        docs == OrderByName(
                  SelectSeq(store, LAMBDA d :
                      /\ d.collection = collectionName
                      /\ typeInput = "" \/ d.data.type = typeInput),
                  NameOrder)
        shown == SubSeq(docs, 1, IF Len(docs) < limit THEN Len(docs) ELSE limit)
    IN  [k \in 1..Len(shown) |-> FreshResult(shown[k].data, shown[k].id, collectionName)]

ListLocations(limitInput, collectionInput, typeInput) ==
    /\ last' = [ op |-> "listLocations", limit |-> limitInput,
                 collection |-> collectionInput, type |-> typeInput,
                 outcome |-> "ok", error |-> "",
                 results |-> listLocations(firestore, limitInput, collectionInput,
                                           typeInput) ]
    /\ UNCHANGED firestore

\* The tools of the locations server: the function each one calls and the
\* category it passes.
ToolTable ==
    { [tool |-> "search_cities", fn |-> "searchLocation", category |-> "cities"],
      [tool |-> "search_mountains", fn |-> "searchLocation", category |-> "mountains"],
      [tool |-> "search_peaks", fn |-> "searchLocation", category |-> "peaks"],
      [tool |-> "search_natural_sites", fn |-> "searchLocation",
       category |-> "natural_sites"],
      [tool |-> "search_cultural_sites", fn |-> "searchLocation",
       category |-> "cultural_sites"],
      [tool |-> "search_location", fn |-> "searchLocation", category |-> ""],
      [tool |-> "search_all_cities", fn |-> "searchAllLocations", category |-> "cities"],
      [tool |-> "search_all_mountains", fn |-> "searchAllLocations",
       category |-> "mountains"],
      [tool |-> "search_all_peaks", fn |-> "searchAllLocations", category |-> "peaks"],
      [tool |-> "search_all_natural_sites", fn |-> "searchAllLocations",
       category |-> "natural_sites"],
      [tool |-> "search_all_cultural_sites", fn |-> "searchAllLocations",
       category |-> "cultural_sites"],
      [tool |-> "search_all_locations", fn |-> "searchAllLocations", category |-> ""],
      [tool |-> "get_location_by_id", fn |-> "getLocationById", category |-> ""],
      [tool |-> "list_locations", fn |-> "listLocations", category |-> ""] }

\* The tool names a client may send: those of the table and one that is not.
ToolNames == { t.tool : t \in ToolTable } \cup { "no_such_tool" }

\* A failure of the store during a call: the first query of the function
\* rejects.
StoreFaults == { "up", "down" }

\* One tools/call request: the body of the try block of the handler, what
\* the case of the tool does.  args holds the arguments name, type, id,
\* collection and limit.
CallTool(tool, args, fates, storeFault) ==
    IF tool \notin { t.tool : t \in ToolTable }
    THEN /\ last' = Failed(Call("unknownTool", args.name, "", ""), "Unknown tool")
         /\ UNCHANGED firestore
    ELSE
      LET entry == CHOOSE t \in ToolTable : t.tool = tool
          locationType == IF entry.category = "" THEN args.type ELSE ""
      IN
      IF entry.fn \in {"searchLocation", "searchAllLocations"}
      THEN IF ~args.name.isString \/ args.name.str = <<>>
           THEN /\ last' = Failed(Call(entry.fn, args.name, locationType, entry.category),
                                  "Location name is required")
                /\ UNCHANGED firestore
           ELSE IF storeFault = "down"
           THEN /\ last' = Failed([Call(entry.fn, args.name, locationType, entry.category)
                                     EXCEPT !.cacheQueries = 1],
                                  "Firestore unavailable")
                /\ UNCHANGED firestore
           ELSE IF entry.fn = "searchLocation"
           THEN SearchLocation(args.name, locationType, entry.category, fates)
           ELSE SearchAllLocations(args.name, locationType, entry.category, fates)
      ELSE IF storeFault = "down" /\ ~(entry.fn = "getLocationById" /\ args.id = <<>>)
      THEN /\ last' = [ op |-> entry.fn, outcome |-> "error",
                        error |-> "Firestore unavailable", results |-> <<>> ]
           /\ UNCHANGED firestore
      ELSE IF entry.fn = "getLocationById"
      THEN GetLocationById(args.id, args.collection)
      ELSE ListLocations(args.limit, args.collection, args.type)

\* A mutant of ToolResponse: the handler has no catch block, so an error
\* leaves it and no response is built.
ToolResponse_uncaught(call) ==
    IF call.outcome = "error"
    THEN [ answered |-> FALSE, isError |-> FALSE, text |-> <<>> ]
    ELSE [ answered |-> TRUE, isError |-> FALSE, text |-> <<call.results>> ]

\* The response of the handler to a call that ended as `call` records: the
\* result as text, or, from the catch block, { error: message } and isError.
ToolResponse(call) ==
    IF call.outcome = "error"
    THEN [ answered |-> TRUE, isError |-> TRUE, text |-> <<[error |-> call.error]>> ]
    ELSE [ answered |-> TRUE, isError |-> FALSE, text |-> <<call.results>> ]

\* The name arguments of the tool calls: none, and a name to be trimmed.
ToolNameInputs ==
    { [isString |-> FALSE, str |-> <<>>], [isString |-> TRUE, str |-> <<" ", "a">>] }

\* The arguments worth passing to a tool.
ToolArgs(tool) ==
    LET NoArgs == [ name |-> [isString |-> FALSE, str |-> <<>>], type |-> "",
                    id |-> <<>>, collection |-> "", limit |-> <<>> ]
    IN
    CASE tool = "get_location_by_id" ->
           { [NoArgs EXCEPT !.id = i, !.collection = c] :
               i \in IdInputs, c \in {"", "peaks", "cities"} }
      [] tool = "list_locations" ->
           { [NoArgs EXCEPT !.limit = l, !.collection = c, !.type = t] :
               l \in {<<>>, <<1>>}, c \in {"", "cultural_sites"}, t \in {"", "town"} }
      [] tool \in {"search_location", "search_all_locations"} ->
           { [NoArgs EXCEPT !.name = n, !.type = t] :
               n \in ToolNameInputs, t \in {"", "city"} }
      [] tool = "no_such_tool" -> { NoArgs }
      [] OTHER -> { [NoArgs EXCEPT !.name = n] : n \in ToolNameInputs }

(***************************************************************************)
(* Resolution Orchestrator of the cities server.                           *)
(***************************************************************************)
\* A mutant of CityValidateAndSave: the record is saved before it is
\* validated.
CityValidateAndSave_saveFirst(fetched, enrichedData) ==
    LET validation == validateCityData(enrichedData)
        validated == [fetched EXCEPT !.validations = 1,
                         !.writes = <<[collection |-> CITY_COLLECTION_NAME,
                                       id |-> Len(firestore) + 1]>>]
    IN
    /\ Len(firestore) < MaxDocs
    /\ firestore' = Add(firestore, CITY_COLLECTION_NAME, enrichedData)
    /\ last' = IF ~validation.valid
               THEN Failed([validated EXCEPT !.rejected = 1], "Invalid city data")
               ELSE [validated EXCEPT
                       !.results = <<FreshResult(enrichedData, Len(firestore) + 1, "")>>]

\* The end of searchCity: validate, then save and return.
CityValidateAndSave(fetched, enrichedData) ==
    LET validation == validateCityData(enrichedData)
        validated == [fetched EXCEPT !.validations = 1]
    IN
    IF ~validation.valid
    THEN /\ last' = Failed([validated EXCEPT !.rejected = 1], "Invalid city data")
         /\ UNCHANGED firestore
    ELSE /\ Len(firestore) < MaxDocs
         /\ firestore' = Add(firestore, CITY_COLLECTION_NAME, enrichedData)
         /\ last' = [validated EXCEPT
                       !.results = <<FreshResult(enrichedData, Len(firestore) + 1, "")>>,
                       !.writes = <<[collection |-> CITY_COLLECTION_NAME,
                                     id |-> Len(firestore) + 1]>>]

SearchCity(input, fates) ==
    LET call == Call("searchCity", input, "", "")
    IN
    IF ~input.isString \/ input.str = <<>>
    THEN /\ last' = Failed(call, "City name is required")
         /\ UNCHANGED firestore
    ELSE
      LET normalizedName == Trim(input.str)
          cacheQuery == CacheQuery(CITY_COLLECTION_NAME, normalizedName, "")
          queried == [call EXCEPT !.cacheQueries = 1]
      IN
      IF cacheQuery # {}
      THEN \E i \in cacheQuery :
             /\ last' = [queried EXCEPT !.cacheHit = TRUE,
                            !.results = <<CachedResult(firestore[i], "")>>]
             /\ UNCHANGED firestore
      ELSE
        \E osm \in CitySearchOutcomes[normalizedName] :
          LET asked == [queried EXCEPT !.overpassRequests = Len(osm.stages)]
          IN
          IF osm.threw
          THEN /\ last' = Failed(asked, osm.error)
               /\ UNCHANGED firestore
          ELSE IF Len(osm.value) = 0
          THEN /\ last' = FailedFor(asked, "No results found", normalizedName)
               /\ UNCHANGED firestore
          ELSE
            LET osmData == osm.value[1]
            IN
            \E fate \in FateChoices(osmData, fates) :
              LET enriched == cityEnrich(osmData, fate[1], fate[2])
                  fetched == [asked EXCEPT
                                !.wikipediaRequests = enriched.wikipediaRequests,
                                !.wikidataRequests = enriched.wikidataRequests,
                                !.absorbed = enriched.absorbed]
              IN
              IF enriched.threw
              THEN /\ last' = Failed(fetched, enriched.error)
                   /\ UNCHANGED firestore
              ELSE CityValidateAndSave(fetched, enriched.value[1])

(***************************************************************************)
(* The Wikidata adapter called on its own.                                 *)
(***************************************************************************)
\* The ids a caller passes: none, one that is no entity id, an entity id.
WikidataIds == { <<>>, <<"x">>, <<"Q", "1">> }

\* How each of the (up to three) requests of one getInfo may end.
WikidataFates == WikidataOutcomes \X WikidataOutcomes \X WikidataOutcomes

\* One getInfo: the record of the call holds the id, how the requests that
\* were issued ended, in order, and what the caller got.
GetInfo(wikidataId, outcomes) ==
    LET result == wikidataGetInfo(wikidataId, outcomes)
    IN
    /\ last' = [ op |-> "getInfo", id |-> wikidataId,
                 outcomes |-> SubSeq(outcomes, 1, result.requests),
                 result |-> result ]
    /\ UNCHANGED firestore

(***************************************************************************)
(* The Overpass adapter of the locations server called on its own.         *)
(***************************************************************************)
\* The fates of the requests of one search, every combination.
EveryFault(locationType, category) ==
    IF locationType = "" /\ category = ""
    THEN OverpassFaults \X OverpassFaults \X OverpassFaults
    ELSE { <<f, "ok", "ok">> : f \in OverpassFaults }

\* One search of the service, as the handlers select it: the record of the
\* call holds the arguments, the data the service held, how the requests
\* that were issued ended, in order, and what the caller got.
Search(searchTerm, locationType, category, world, faults) ==
    LET result == OverpassSearch(searchTerm, locationType, category, world, faults)
    IN
    /\ last' = [ op |-> "search", term |-> searchTerm, type |-> locationType,
                 category |-> category, world |-> world,
                 faults |-> SubSeq(faults, 1, Len(result.stages)),
                 result |-> result ]
    /\ UNCHANGED firestore

(***************************************************************************)
(* The Validation Gate called on its own.                                  *)
(***************************************************************************)
\* The records handed to the gate: each field absent, of the wrong kind, or
\* of the right kind, with coordinates on both sides of each limit.
GateInputs ==
    [ name : { JsUndefined, JsNumber(5), JsString(<<>>), JsString(<<"a">>) },
      lat : { JsUndefined, JsString(<<"4", "2">>), JsNumber(0), JsNumber(-LatLimit - 1),
              JsNumber(-LatLimit), JsNumber(LatLimit), JsNumber(910000) },
      lon : { JsUndefined, JsString(<<"2", "3">>), JsNumber(0), JsNumber(-LonLimit - 1),
              JsNumber(-LonLimit), JsNumber(LonLimit), JsNumber(1810000) },
      type : { JsUndefined, JsNumber(5), JsString(<<>>), JsString(<<"c", "i", "t", "y">>) } ]

\* One call of the gate: the record of the call holds the record handed in,
\* the result, and the record as it is after the call.
Validate(data) ==
    /\ last' = [ op |-> "validateCityData", data |-> data,
                 result |-> validateCityRecord(data), after |-> data ]
    /\ UNCHANGED firestore

(***************************************************************************)
(* determineType called on its own.                                        *)
(***************************************************************************)
\* Tag sets carrying one tag: every value the rules name, and one they do
\* not, for each key.
SingleTags ==
    { [NoTags EXCEPT !.place = v] : v \in {"city", "town", "village", "hamlet"} }
    \cup { [NoTags EXCEPT !.natural = v] :
             v \in {"mountain_range", "peak", "cave", "cave_entrance", "waterfall",
                    "tree"} }
    \cup { [NoTags EXCEPT !.tourism = v] :
             v \in {"alpine_hut", "viewpoint", "museum", "attraction", "zoo"} }
    \cup { [NoTags EXCEPT !.historic = v] :
             v \in {"castle", "fort", "ruins", "archaeological_site", "monastery",
                    "memorial", "church", "yes"} }
    \cup { [NoTags EXCEPT !.amenity = v, !.religion = r] :
             v \in {"place_of_worship", "cafe"}, r \in {"", "christian", "muslim"} }

\* Tag sets carrying several tags at once, the empty one included.
MixedTags ==
    { [NoTags EXCEPT !.place = p, !.natural = n, !.tourism = t, !.historic = h,
                     !.amenity = a, !.religion = r] :
        p \in {"", "hamlet"}, n \in {"", "peak", "tree"}, t \in {"", "museum", "zoo"},
        h \in {"", "castle", "yes"}, a \in {"", "place_of_worship"},
        r \in {"", "christian"} }

\* One call of determineType.
DetermineType(tags) ==
    /\ last' = [ op |-> "determineType", tags |-> tags, result |-> determineType(tags) ]
    /\ UNCHANGED firestore

(***************************************************************************)
(* The category tables called on their own.                                *)
(***************************************************************************)
\* The types handed to getCollectionForType: the known ones, values
\* determineType gives beyond them, and other strings.
TypeStrings ==
    LOCATION_TYPES
    \cup { "hamlet", "unknown", "place_of_worship", "" }
    \cup { "constructor", "toString", "__proto__" }

\* One lookup of a type and of a category: the collection of the type, and
\* whether the category lists the type.
Classify(locationType, category) ==
    /\ last' = [ op |-> "getCollectionForType", type |-> locationType,
                 category |-> category,
                 collection |-> getCollectionForType(locationType),
                 listed |-> locationType \in LOCATION_CATEGORIES(category) ]
    /\ UNCHANGED firestore

(***************************************************************************)
(* The merge called on its own.                                            *)
(***************************************************************************)
\* The features a search may hand to the merge.
MergeFeatures ==
    LET parsed == parseOverpassResults(OSMOrder)
    IN  { parsed[k] : k \in 1..Len(parsed) }

\* What wikipediaService.getInfo may have returned: null; a page whose
\* image and thumbnail are one URL; a page with two different URLs; a page
\* with an empty extract and no picture; a page with a thumbnail only.
WikipediaAnswers ==
    LET page == WikipediaPage(<<"b", "g", ":", "a">>)
    IN  { <<>>,
          <<page>>,
          <<[page EXCEPT !.image = <<"img0">>]>>,
          <<[page EXCEPT !.description = <<"">>, !.image = <<>>, !.thumbnail = <<>>]>>,
          <<[page EXCEPT !.description = <<>>, !.image = <<>>, !.url = <<>>]>> }

\* What wikidataService.getInfo may have returned: null; the facts of an
\* entity with everything; an entity at sea level without inhabitants; one
\* with a description only; one with a picture only.
WikidataAnswers ==
    LET facts == WikidataFacts(<<"Q", "1">>)
        none == [ description |-> <<>>, population |-> <<>>, elevation |-> <<>>,
                  area |-> <<>>, images |-> <<>>, officialWebsite |-> <<>> ]
    IN  { <<>>,
          <<facts>>,
          <<[facts EXCEPT !.elevation = <<0>>, !.population = <<0>>]>>,
          <<[none EXCEPT !.description = <<"wd-description">>]>>,
          <<[none EXCEPT !.images = <<"img2">>]>> }

\* One merge: the record of the call holds the three inputs and the merged
\* record.
Merge(osmData, wikipediaData, wikidataData) ==
    /\ last' = [ op |-> "merge", osm |-> osmData, wikipedia |-> wikipediaData,
                 wikidata |-> wikidataData,
                 record |-> MergeData(osmData, wikipediaData, wikidataData) ]
    /\ UNCHANGED firestore

(***************************************************************************)
(* escapeSearchTerm called on its own, and the query texts.                *)
(***************************************************************************)
MaxTerm == 3

\* The characters escapeSearchTerm escapes.
SpecialChars ==
    { "\\", "\"", "[", "]", "(", ")", ".", "*", "+", "?", "^", "$", "{", "}", "|" }

\* One character of each replacement and two ordinary ones.
CoreChars == { "a", " ", "\\", "\"", "[", ")", "$" }

RECURSIVE StringsUpTo(_, _)
StringsUpTo(chars, n) ==
    IF n = 0 THEN { <<>> }
    ELSE LET shorter == StringsUpTo(chars, n - 1)
         IN  shorter \cup { Append(t, ch) : t \in shorter, ch \in chars }

\* The terms: every string of up to MaxTerm core characters, every special
\* character alone and after an ordinary one, and a\"b.
EscapeInputs ==
    StringsUpTo(CoreChars, MaxTerm)
    \cup { <<ch>> : ch \in SpecialChars } \cup { <<"a", ch>> : ch \in SpecialChars }
    \cup { <<"a", "\\", "\"", "b">> }

QueryTerms == { t \in EscapeInputs : Len(t) < MaxTerm }

Escape(searchTerm) ==
    /\ last' = [ op |-> "escape", term |-> searchTerm,
                 escaped |-> escapeSearchTerm(searchTerm) ]
    /\ UNCHANGED firestore

\* One search building its queries for a term.
BuildQueries(fn, searchTerm) ==
    /\ last' = [ op |-> "query", fn |-> fn, term |-> searchTerm,
                 filters |-> QueryNameFilters(fn, searchTerm) ]
    /\ UNCHANGED firestore

(***************************************************************************)
(* enrichLocationData step by step: each await is a point where the        *)
(* function is suspended while a request is in flight.                     *)
(***************************************************************************)
\* The features handed to the enrichment: those the searches parse, and the
\* city with a wikipedia tag that has no ':', with a wikidata tag that does
\* not start with 'Q', and with a wikipedia tag only.
EnrichFeatures ==
    LET city == CHOOSE f \in MergeFeatures : f.wikipedia # <<>> /\ f.wikidata # <<>>
    IN  MergeFeatures
        \cup { [city EXCEPT !.wikipedia = <<"a">>],
               [city EXCEPT !.wikidata = <<"x", "1">>],
               [city EXCEPT !.wikidata = <<>>] }

\* Whether getInfo reaches its fetch for an identifier.
WikipediaSends(wikipediaTag) == wikipediaGetInfo(wikipediaTag, "data").requests > 0

WikidataSends(wikidataId) ==
    wikidataGetInfo(wikidataId, <<"ok", "ok", "ok">>).requests > 0

\* The enrichment of a feature at its start: nothing called, nothing sent;
\* `errors` are the messages the catch blocks logged, `delays` the sleeps of
\* the Wikidata retry loop.
EnrichState(osmData) ==
    [ op |-> "enrich", pc |-> "wikipedia", osm |-> osmData,
      wikipedia |-> "idle", wikidata |-> "idle",
      calls |-> <<>>, requests |-> [wikipedia |-> 0, wikidata |-> 0],
      errors |-> <<>>, delays |-> <<>>,
      wikipediaData |-> <<>>, wikidataData |-> <<>>, merged |-> <<>> ]

\* enrichLocationData(osmData) up to its first await: the Wikipedia block.
\* getInfo is called when the tag is truthy; it sends its request unless its
\* guard returns null first.
EnrichBegin(osmData) ==
    /\ last.op = "enrich" => last.pc = "done"
    /\ last' =
          LET st == EnrichState(osmData)
          IN  IF osmData.wikipedia = <<>>
              THEN [st EXCEPT !.pc = "wikidata"]
              ELSE IF WikipediaSends(osmData.wikipedia)
              THEN [st EXCEPT !.pc = "awaitWikipedia", !.wikipedia = "inflight",
                              !.calls = <<[adapter |-> "wikipedia", id |-> osmData.wikipedia]>>,
                              !.requests.wikipedia = 1]
              ELSE [st EXCEPT !.pc = "wikidata", !.wikipedia = "done",
                              !.calls = <<[adapter |-> "wikipedia", id |-> osmData.wikipedia]>>]
    /\ UNCHANGED firestore

\* The Wikipedia request completes or fails; the catch leaves null.
WikipediaCompletes(outcome) ==
    /\ last.op = "enrich" /\ last.pc = "awaitWikipedia"
    /\ LET r == wikipediaGetInfo(last.osm.wikipedia, outcome)
       IN  last' = [last EXCEPT !.pc = "wikidata", !.wikipedia = "done",
                                !.errors = IF r.threw THEN Append(@, r.error) ELSE @,
                                !.wikipediaData = IF r.threw THEN <<>> ELSE r.value]
    /\ UNCHANGED firestore

\* The Wikidata block, reached after the Wikipedia block has finished.
WikidataBegin ==
    /\ last.op = "enrich" /\ last.pc = "wikidata"
    /\ last' =
          IF last.osm.wikidata = <<>>
          THEN [last EXCEPT !.pc = "merge"]
          ELSE IF WikidataSends(last.osm.wikidata)
          THEN [last EXCEPT !.pc = "awaitWikidata", !.wikidata = "inflight",
                            !.calls = Append(@, [adapter |-> "wikidata",
                                                 id |-> last.osm.wikidata])]
          ELSE [last EXCEPT !.pc = "merge", !.wikidata = "done",
                            !.calls = Append(@, [adapter |-> "wikidata",
                                                 id |-> last.osm.wikidata])]
    /\ UNCHANGED firestore

\* The retry loop of the Wikidata adapter ends; the catch leaves null.
WikidataCompletes(outcomes) ==
    /\ last.op = "enrich" /\ last.pc = "awaitWikidata"
    /\ LET r == wikidataGetInfo(last.osm.wikidata, outcomes)
       IN  last' = [last EXCEPT !.pc = "merge", !.wikidata = "done",
                                !.requests.wikidata = r.requests,
                                !.delays = r.delays,
                                !.errors = IF r.threw THEN Append(@, r.error) ELSE @,
                                !.wikidataData = IF r.threw THEN <<>> ELSE r.value]
    /\ UNCHANGED firestore

\* The merge of the three sources.
EnrichMerge ==
    /\ last.op = "enrich" /\ last.pc = "merge"
    /\ last' = [last EXCEPT !.pc = "done",
                            !.merged = <<MergeData(last.osm, last.wikipediaData,
                                                   last.wikidataData)>>]
    /\ UNCHANGED firestore

(***************************************************************************)
(* Two searchLocation calls in flight at once.  The handler of a second    *)
(* request starts while the first is suspended at an await; each call      *)
(* advances from one await to the next: the cache query, the external      *)
(* requests (search and enrichment), the insert.                           *)
(***************************************************************************)
Callers == {1, 2}

IdleCall ==
    [ pc |-> "idle", name |-> <<>>, type |-> "", category |-> "",
      hit |-> FALSE, error |-> "", data |-> <<>>, collection |-> "", inserted |-> <<>> ]

\* The two calls; none has started before the first request arrives.
Calls == IF last.op = "overlap" THEN last.calls ELSE <<IdleCall, IdleCall>>

SetCall(p, call) == [ op |-> "overlap", calls |-> [Calls EXCEPT ![p] = call] ]

\* The names and modes of the overlapping calls.
OverlapNames == { <<"a">>, <<"b">> }

OverlapModes == { [type |-> "city", category |-> ""], [type |-> "", category |-> "cities"] }

\* A request arrives: the name is trimmed and the cache query is sent.
OverlapStart(p, name, mode) ==
    /\ Calls[p].pc \in {"idle", "done"}
    /\ last' = SetCall(p, [IdleCall EXCEPT !.pc = "lookup", !.name = Trim(name),
                                           !.type = mode.type,
                                           !.category = mode.category])
    /\ UNCHANGED firestore

\* The store answers the cache query from what it holds at that moment.
OverlapLookup(p) ==
    LET call == Calls[p]
    IN  /\ call.pc = "lookup"
        /\ last' = SetCall(p,
              IF CacheQuery(LookupCollection(call.type, call.category), call.name,
                            call.type) # {}
              THEN [call EXCEPT !.pc = "done", !.hit = TRUE]
              ELSE [call EXCEPT !.pc = "fetch"])
        /\ UNCHANGED firestore

\* After a miss: the Overpass search, the enrichment and the validation.
OverlapFetch(p) ==
    LET call == Calls[p]
    IN  /\ call.pc = "fetch"
        /\ \E osm \in FirstOutcomes[call.name,
                                     [type |-> call.type, category |-> call.category]] :
             IF osm.threw
             THEN last' = SetCall(p, [call EXCEPT !.pc = "done", !.error = osm.error])
             ELSE IF Len(osm.value) = 0
             THEN last' = SetCall(p, [call EXCEPT !.pc = "done",
                                                  !.error = "No results found"])
             ELSE
               \E fate \in FateChoices(osm.value[1], FewFates) :
                 LET enriched == enrichLocationData(osm.value[1], fate[1], fate[2])
                 IN  IF ~validateLocationData(enriched.value[1]).valid
                     THEN last' = SetCall(p, [call EXCEPT !.pc = "done",
                                                !.error = "Invalid location data"])
                     ELSE last' = SetCall(p, [call EXCEPT !.pc = "insert",
                                                !.data = enriched.value,
                                                !.collection =
                                                   getCollectionForType(osm.value[1].type)])
        /\ UNCHANGED firestore

\* The insert, and the return of the call.
OverlapInsert(p) ==
    LET call == Calls[p]
    IN  /\ call.pc = "insert"
        /\ Len(firestore) < MaxDocs
        /\ firestore' = Add(firestore, call.collection, call.data[1])
        /\ last' = SetCall(p, [call EXCEPT !.pc = "done",
                                           !.inserted = <<Len(firestore) + 1>>])

(***************************************************************************)
(* The rate limiter of the admin server.  Times are in milliseconds, as    *)
(* Date.now() gives them; the clock does not run backwards.                *)
(***************************************************************************)
RATE_LIMIT == 10

RATE_WINDOW == 60 * 1000

\* A mutant of isRateLimited: a rejected request is recorded like an
\* admitted one.
isRateLimited_recordsRejected(requestCounts, ip, now) ==
    LET requests == requestCounts[ip]
        recentRequests == SelectSeq(requests, LAMBDA time : now - time < RATE_WINDOW)
    IN  [ limited |-> Len(recentRequests) >= RATE_LIMIT,
          requestCounts |-> [requestCounts EXCEPT ![ip] = Append(recentRequests, now)] ]

\* isRateLimited(ip) at time now: the answer and the map afterwards.  A
\* client the map has no entry for has the empty list.
isRateLimited(requestCounts, ip, now) ==
    LET requests == requestCounts[ip]
        recentRequests == SelectSeq(requests, LAMBDA time : now - time < RATE_WINDOW)
    IN  IF Len(recentRequests) >= RATE_LIMIT
        THEN [ limited |-> TRUE, requestCounts |-> requestCounts ]
        ELSE [ limited |-> FALSE,
               requestCounts |-> [requestCounts EXCEPT ![ip] = Append(recentRequests, now)] ]

ClientIPs == { "ip1", "ip2" }

\* The admissions a run goes on to.
MaxRequests == 12

\* The clock advances by nothing or by half a window between requests, up
\* to a window and a half.
ClockSteps == { 0, RATE_WINDOW \div 2 }

MaxClock == RATE_WINDOW + (RATE_WINDOW \div 2)

\* The limiter: the clock at the last request, the map, and for each client
\* the times of all its admitted requests since the start.
RateState ==
    IF last.op = "rate" THEN last
    ELSE [ op |-> "rate", now |-> 0, ip |-> "", limited |-> FALSE,
           requestCounts |-> [ip \in ClientIPs |-> <<>>],
           admitted |-> [ip \in ClientIPs |-> <<>>] ]

Admissions(st) == Len(st.admitted["ip1"]) + Len(st.admitted["ip2"])

\* A request of a client arrives `step` milliseconds after the last one.
Request(ip, step) ==
    LET st == RateState
        now == st.now + step
        r == isRateLimited(st.requestCounts, ip, now)
    IN  /\ now <= MaxClock
        /\ r.limited \/ Admissions(st) < MaxRequests
        /\ last' = [ op |-> "rate", now |-> now, ip |-> ip, limited |-> r.limited,
                     requestCounts |-> r.requestCounts,
                     admitted |-> IF r.limited THEN st.admitted
                                  ELSE [st.admitted EXCEPT ![ip] = Append(@, now)] ]
        /\ UNCHANGED firestore

(***************************************************************************)
(* One resolution await by await: searchLocation, searchAllLocations or    *)
(* searchCity from its start to its return.  Each step is the completion   *)
(* of the await the call is suspended at (the store answering, a request   *)
(* responding or being aborted by its timeout, a retry timer firing) and   *)
(* the code run up to the next await.                                      *)
(***************************************************************************)
RunFunctions == { "searchLocation", "searchAllLocations", "searchCity" }

\* The call before any request has arrived.
NoRun ==
    [ op |-> "run", fn |-> "", progressive |-> FALSE, pc |-> "returned",
      stage |-> 0, attempt |-> 0, slept |-> FALSE, left |-> 0, saved |-> 0,
      outcome |-> "" ]

Run == IF last.op = "run" THEN last ELSE NoRun

Returned(run, outcome) == [run EXCEPT !.pc = "returned", !.outcome = outcome]

\* Whether the retry loop of the Wikidata adapter goes round again after an
\* attempt that met outcome o, and whether it sleeps before it does.
RetriesAfter(o, attempt) ==
    /\ attempt < MAX_RETRY_ATTEMPTS
    /\ o \in {"status5xx", "status429", "abort", "neterr", "other"}

SleepsBefore(o) == o # "other"

\* A mutant of NextAttempt: the loop counter is not advanced.
NextAttempt_stuck(attempt) == attempt

\* attempt++ of the retry loop.
NextAttempt(attempt) == attempt + 1

\* A request arrives.  A name that is not a non-empty string is refused
\* before anything is awaited; otherwise the cache query is sent.
\* `progressive` says that searchLocation or searchAllLocations was called
\* without type and category, so that searchByName goes through its stages.
RunStart(fn, progressive, validName) ==
    /\ Run.pc = "returned"
    /\ fn = "searchCity" => ~progressive
    /\ last' = IF validName
               THEN [NoRun EXCEPT !.fn = fn, !.progressive = progressive, !.pc = "cache"]
               ELSE Returned([NoRun EXCEPT !.fn = fn, !.progressive = progressive], "error")
    /\ UNCHANGED firestore

\* The store answers the cache query: it failed, it found the name, or it
\* did not; after a miss the first Overpass query is sent.
CacheResponds(answer) ==
    /\ Run.pc = "cache"
    /\ last' = CASE answer = "failed" -> Returned(Run, "error")
                 [] answer = "hit" -> Returned(Run, "ok")
                 [] OTHER -> [Run EXCEPT !.pc = "overpass", !.stage = 1]
    /\ UNCHANGED firestore

\* The features a call goes on with: the first one, or all of a batch.
Taken(fn, n) == IF fn = "searchAllLocations" THEN n ELSE 1

\* The Overpass service answers the query of the current stage (or the
\* request fails or is aborted).  In a progressive search a stage without
\* features gives way to the next one, up to the third; otherwise there is
\* one query.  With features the enrichment of the first one begins.
OverpassResponds(answer, n) ==
    /\ Run.pc = "overpass"
    /\ last' =
          IF answer = "found"
          THEN [Run EXCEPT !.pc = "wikipedia", !.left = Taken(Run.fn, n)]
          ELSE IF Run.progressive /\ Run.stage < 3
          THEN [Run EXCEPT !.stage = @ + 1]
          ELSE Returned(Run, "error")
    /\ UNCHANGED firestore

\* After a feature of a batch: the next one, or the return.
NextFeature(run) ==
    IF run.left > 1
    THEN [run EXCEPT !.pc = "wikipedia", !.left = @ - 1, !.attempt = 0]
    ELSE Returned([run EXCEPT !.left = 0], IF run.saved > 0 THEN "ok" ELSE "error")

\* The Wikipedia step of the current feature ends: the feature is a
\* duplicate and is skipped (searchAllLocations), it has no tag, or the
\* request gave data, nothing or an error.  searchCity awaits the call
\* outside any try block; the locations server catches the error.
WikipediaResponds(answer) ==
    /\ Run.pc = "wikipedia"
    /\ answer = "duplicate" => Run.fn = "searchAllLocations" /\ Run.saved > 0
    /\ last' = CASE answer = "duplicate" -> NextFeature(Run)
                 [] answer = "threw" /\ Run.fn = "searchCity" -> Returned(Run, "error")
                 [] OTHER -> [Run EXCEPT !.pc = "wikidata", !.attempt = 1, !.slept = FALSE]
    /\ UNCHANGED firestore

\* The current attempt of the Wikidata adapter ends ("skip": the feature
\* has no wikidata tag and nothing was sent).  The loop goes round again
\* or the adapter returns or throws; the caller catches the error.
WikidataResponds(o) ==
    /\ Run.pc = "wikidata"
    /\ o = "skip" => Run.attempt = 1
    /\ last' = IF o # "skip" /\ RetriesAfter(o, Run.attempt)
               THEN IF SleepsBefore(o)
                    THEN [Run EXCEPT !.pc = "sleep"]
                    ELSE [Run EXCEPT !.attempt = NextAttempt(@), !.slept = FALSE]
               ELSE [Run EXCEPT !.pc = "save"]
    /\ UNCHANGED firestore

\* The timer of the backoff fires and the next attempt is sent; `slept`
\* says that the attempt in flight was preceded by a backoff.
TimerFires ==
    /\ Run.pc = "sleep"
    /\ last' = [Run EXCEPT !.pc = "wikidata", !.attempt = NextAttempt(@),
                           !.slept = TRUE]
    /\ UNCHANGED firestore

\* The merged record is validated and, when valid, inserted; the store
\* accepts or refuses the insert.  An invalid record ends searchLocation
\* and searchCity and is skipped by searchAllLocations.
SaveResponds(answer) ==
    /\ Run.pc = "save"
    /\ last' = CASE answer = "invalid" ->
                      IF Run.fn = "searchAllLocations" THEN NextFeature(Run)
                      ELSE Returned(Run, "error")
                 [] answer = "refused" -> Returned(Run, "error")
                 [] OTHER -> NextFeature([Run EXCEPT !.saved = @ + 1])
    /\ UNCHANGED firestore

(***************************************************************************)
(* Specifications.                                                         *)
(***************************************************************************)
Next ==
    \/ \E input \in NameInputs, mode \in FewModes :
          SearchLocation(input, mode.type, mode.category, FewFates)
    \/ \E input \in NameInputs, mode \in FewModes :
          SearchAllLocations(input, mode.type, mode.category, FewFates)
    \/ \E input \in NameInputs : SearchCity(input, FewFates)

\* Both servers on the shared store, calls one after the other; the two
\* enrichment sources are up together or down together.
Spec == Init /\ [][Next]_vars

NextLocation ==
    \E input \in NameInputs, mode \in Modes :
        SearchLocation(input, mode.type, mode.category, AllFates)

\* searchLocation calls alone, under every fate of the enrichment requests.
SpecLocation == Init /\ [][NextLocation]_vars

NextAll ==
    \E input \in NameInputs, mode \in BatchModes :
        SearchAllLocations(input, mode.type, mode.category, FewFates)

\* searchAllLocations calls alone.
SpecAll == Init /\ [][NextAll]_vars

NextCities == \E input \in NameInputs : SearchCity(input, AllFates)

\* The cities server alone: a sequence of searchCity calls.
SpecCities == Init /\ [][NextCities]_vars

NextWikidata ==
    \E wikidataId \in WikidataIds, outcomes \in WikidataFates :
        GetInfo(wikidataId, outcomes)

\* The Wikidata adapter alone: a sequence of getInfo calls under every fate
\* of their requests.
SpecWikidata == Init /\ [][NextWikidata]_vars

NextOverpass ==
    \E term \in Terms, mode \in Modes :
      \E world \in Worlds(term), faults \in EveryFault(mode.type, mode.category) :
        Search(term, mode.type, mode.category, world, faults)

\* The Overpass adapter alone: a sequence of searches over every data set
\* and every fate of the requests.
SpecOverpass == Init /\ [][NextOverpass]_vars

NextById ==
    \/ \E input \in NameInputs, mode \in Modes :
          SearchLocation(input, mode.type, mode.category, FewFates)
    \/ \E idInput \in IdInputs, collectionName \in COLLECTIONS \cup {""} :
          GetLocationById(idInput, collectionName)

\* searchLocation and get_location_by_id calls, one after the other.
SpecById == Init /\ [][NextById]_vars

NextTools ==
    \E tool \in ToolNames, storeFault \in StoreFaults :
      \E args \in ToolArgs(tool) :
        CallTool(tool, args, FewFates, storeFault)

\* The tools of the locations server, called one after the other.
SpecTools == Init /\ [][NextTools]_vars

NextCategory ==
    \E input \in CategoryNameInputs, category \in COLLECTIONS :
        \/ SearchLocation(input, "", category, FewFates)
        \/ SearchAllLocations(input, "", category, FewFates)

\* The tools of one category (search_cities, search_all_cities, ...), called
\* one after the other.
SpecCategory == Init /\ [][NextCategory]_vars

NextValidate == \E data \in GateInputs : Validate(data)

\* The Validation Gate alone.
SpecValidate == Init /\ [][NextValidate]_vars

NextDetermine == \E tags \in SingleTags \cup MixedTags : DetermineType(tags)

\* determineType alone.
SpecDetermine == Init /\ [][NextDetermine]_vars

NextClassify ==
    \E locationType \in TypeStrings, category \in COLLECTIONS \cup {"locations"} :
        Classify(locationType, category)

\* The tables of location-constants.js alone.
SpecClassify == Init /\ [][NextClassify]_vars

NextMerge ==
    \E osmData \in MergeFeatures, wikipediaData \in WikipediaAnswers,
       wikidataData \in WikidataAnswers :
        Merge(osmData, wikipediaData, wikidataData)

\* The merge of enrichLocationData alone.
SpecMerge == Init /\ [][NextMerge]_vars

NextEscape == \E searchTerm \in EscapeInputs : Escape(searchTerm)

\* escapeSearchTerm alone.
SpecEscape == Init /\ [][NextEscape]_vars

NextQuery ==
    \E fn \in SearchFunctions, searchTerm \in QueryTerms : BuildQueries(fn, searchTerm)

\* The query texts of the searches.
SpecQuery == Init /\ [][NextQuery]_vars

NextEnrich ==
    \/ \E osmData \in EnrichFeatures : EnrichBegin(osmData)
    \/ \E outcome \in WikipediaOutcomes : WikipediaCompletes(outcome)
    \/ WikidataBegin
    \/ \E outcomes \in WikidataFates : WikidataCompletes(outcomes)
    \/ EnrichMerge

\* enrichLocationData, one await at a time.
SpecEnrich == Init /\ [][NextEnrich]_vars

NextOverlap ==
    \E p \in Callers :
        \/ \E name \in OverlapNames, mode \in OverlapModes : OverlapStart(p, name, mode)
        \/ OverlapLookup(p)
        \/ OverlapFetch(p)
        \/ OverlapInsert(p)

\* Two searchLocation calls interleaved at their awaits.
SpecOverlap == Init /\ [][NextOverlap]_vars

\* The positions at which the store may refuse an insert.
FailPositions == 0..MaxBatch

\* A search by a type without a query of its own, which finds features of
\* every kind, and a search of one category.
PartialModes ==
    { [type |-> "historical_site", category |-> ""], [type |-> "", category |-> "cities"] }

\* A name several features have.
PartialNameInputs == { [isString |-> TRUE, str |-> <<"a">>] }

NextPartial ==
    \E input \in PartialNameInputs, mode \in PartialModes, failAt \in FailPositions :
        SearchAllLocationsWith(input, mode.type, mode.category, FewFates, failAt)

\* searchAllLocations calls against a store that may refuse an insert.
SpecPartial == Init /\ [][NextPartial]_vars

NextRate == \E ip \in ClientIPs, step \in ClockSteps : Request(ip, step)

\* The rate limiter of the admin server under requests of two clients.
SpecRate == Init /\ [][NextRate]_vars

\* The completions of the awaits of a call in flight.
RunStep ==
    \/ \E answer \in {"failed", "hit", "miss"} : CacheResponds(answer)
    \/ \E answer \in {"found", "empty", "failed"}, n \in 1..MaxBatch :
          OverpassResponds(answer, n)
    \/ \E answer \in {"duplicate", "notag", "data", "nothing", "threw"} :
          WikipediaResponds(answer)
    \/ \E o \in WikidataOutcomes \cup {"skip"} : WikidataResponds(o)
    \/ TimerFires
    \/ \E answer \in {"invalid", "refused", "stored"} : SaveResponds(answer)

NextRun ==
    \/ \E fn \in RunFunctions, progressive \in BOOLEAN, validName \in BOOLEAN :
          RunStart(fn, progressive, validName)
    \/ RunStep

\* One resolution at a time, await by await; every request eventually
\* responds or is aborted by its timeout, the store eventually answers and
\* every timer fires.
SpecRun == Init /\ [][NextRun]_vars /\ WF_vars(RunStep)

(***************************************************************************)
(* Properties.                                                             *)
(***************************************************************************)
\* A call that did nothing but look in the cache.
NoExternalWork(call) ==
    /\ call.overpassRequests = 0
    /\ call.wikipediaRequests = 0
    /\ call.wikidataRequests = 0
    /\ call.validations = 0
    /\ call.writes = <<>>

\* The documents a lookup for (name, type) in a collection must match.
Matching(collectionName, input, locationType) ==
    { i \in 1..Len(firestore) :
        /\ firestore[i].collection = collectionName
        /\ firestore[i].data.name = Trim(input.str)
        /\ (locationType # "" => firestore[i].data.type = locationType) }

\* What a cache hit must return for document i.
Cached(i, collectionName) ==
    [ record |-> [firestore[i].data EXCEPT !.source = "cache"],
      id |-> firestore[i].id, collection |-> collectionName ]

\* The four conditions of the Validation Gate.
PassesGate(data) ==
    /\ data.name # <<>>
    /\ data.lat >= -LatLimit /\ data.lat <= LatLimit
    /\ data.lon >= -LonLimit /\ data.lon <= LonLimit
    /\ data.type # ""

\* Two positions within 0.001 degree of each other in both axes.
Near(a, b) ==
    /\ Abs(a.lat - b.lat) < DedupThreshold
    /\ Abs(a.lon - b.lon) < DedupThreshold

RECURSIVE SumRequests(_)
SumRequests(steps) ==
    IF steps = <<>> THEN 0 ELSE Head(steps).requests + SumRequests(Tail(steps))

\* enrichLocationData returns, for every feature and whatever the adapters
\* do, a record with the feature's name, type, position and OSM id.
EnrichmentIsTotal ==
    \A k \in 1..Len(parseOverpassResults(OSMOrder)) :
       \A wp \in WikipediaOutcomes, wd \in WikidataScenarios :
          LET osmData == parseOverpassResults(OSMOrder)[k]
              enriched == enrichLocationData(osmData, wp, wd)
          IN  /\ ~enriched.threw
              /\ Len(enriched.value) = 1
              /\ enriched.value[1].name = osmData.name
              /\ enriched.value[1].type = osmData.type
              /\ enriched.value[1].lat = osmData.lat
              /\ enriched.value[1].lon = osmData.lon
              /\ enriched.value[1].osmId = osmData.osmId

\* C1 (as claimed): in every mode of searchLocation, when a call missed the
\* cache, resolved a feature and persisted it, the next call with the same
\* arguments returns that stored record with source 'cache', makes no
\* Overpass, Wikipedia or Wikidata request and writes nothing.
C1_RepeatIsCacheHit ==
    [][ ( /\ last.op = "searchLocation" /\ last.outcome = "ok" /\ ~last.cacheHit
          /\ last'.op = "searchLocation"
          /\ last'.name = last.name
          /\ last'.type = last.type
          /\ last'.category = last.category )
        => /\ last'.cacheHit
           /\ last'.outcome = "ok"
           /\ Len(last'.results) = 1
           /\ last'.results[1].id = last.results[1].id
           /\ last'.results[1].record =
                  [last.results[1].record EXCEPT !.source = "cache"]
           /\ last'.overpassRequests = 0
           /\ last'.wikipediaRequests = 0
           /\ last'.wikidataRequests = 0
           /\ last'.writes = <<>>
           /\ firestore' = firestore ]_vars

\* C1: a generic searchLocation call (neither type nor category) has missed
\* the cache and stored a second copy of a record the store already held.
C1_RepeatMissed ==
    /\ last.op = "searchLocation" /\ last.type = "" /\ last.category = ""
    /\ last.outcome = "ok" /\ ~last.cacheHit
    /\ Len(firestore) = 2
    /\ firestore[1].collection = firestore[2].collection
    /\ firestore[1].data = firestore[2].data
    /\ last.writes = <<[collection |-> firestore[2].collection, id |-> 2]>>

\* C2: on a cache hit searchLocation and searchCity return one stored record
\* that matches the name (and the type, when given) in the lookup collection,
\* with source 'cache'; the call makes no Overpass, Wikipedia or Wikidata
\* request, validates nothing, writes nothing, and leaves the store as it was.
C2_CacheHitFrame ==
    [][ (last'.cacheHit /\ last'.op \in {"searchLocation", "searchCity"})
        => LET collectionName ==
                   IF last'.op = "searchCity" THEN CITY_COLLECTION_NAME
                   ELSE LookupCollection(last'.type, last'.category)
               returned == IF last'.op = "searchCity" THEN "" ELSE collectionName
           IN  /\ firestore' = firestore
               /\ last'.outcome = "ok"
               /\ NoExternalWork(last')
               /\ Len(last'.results) = 1
               /\ \E i \in Matching(collectionName, last'.name, last'.type) :
                      last'.results[1] = Cached(i, returned) ]_vars

\* C2: a searchLocation call with a type was answered from the cache.
C2_CacheHitReached ==
    /\ last.op = "searchLocation" /\ last.type = "city"
    /\ last.cacheHit
    /\ last.results[1].record.source = "cache"

\* C3: every record in the store passed the Validation Gate (a non-empty
\* name, lat within [-90, 90], lon within [-180, 180], a non-empty type), and
\* a record that validation rejected was not inserted.
C3_StoredRecordsAreValid ==
    /\ \A i \in 1..Len(firestore) : PassesGate(firestore[i].data)
    /\ (last.op \in {"searchLocation", "searchCity"} /\ last.rejected > 0)
          => last.writes = <<>>
    /\ \A k \in 1..Len(last.processed) :
          last.processed[k].fate = "rejected"
             => \A r \in 1..Len(last.results) :
                    last.results[r].record.osmId # last.processed[k].osmId

\* C3: validation rejected the record of a searchCity call, which wrote
\* nothing, while the store holds records that passed.
C3_RejectedBesideStored ==
    /\ last.op = "searchCity"
    /\ last.rejected = 1
    /\ last.writes = <<>>
    /\ Len(firestore) >= 1
    /\ \A i \in 1..Len(firestore) : PassesGate(firestore[i].data)

\* C4: a searchLocation call that succeeds on a cache miss inserts exactly one
\* document, into getCollectionForType(type of the resolved feature), and
\* returns the merged record with the id of that document, that collection,
\* and a source other than 'cache'.
C4_MissInsertsOnce ==
    [][ (last'.op = "searchLocation" /\ last'.outcome = "ok" /\ ~last'.cacheHit)
        => /\ Len(last'.results) = 1
           /\ Len(firestore') = Len(firestore) + 1
           /\ SubSeq(firestore', 1, Len(firestore)) = firestore
           /\ LET r == last'.results[1]
                  doc == firestore'[Len(firestore')]
              IN  /\ doc.collection = getCollectionForType(r.record.type)
                  /\ doc.data = r.record
                  /\ doc.id = r.id
                  /\ \A i \in 1..Len(firestore) : firestore[i].id # r.id
                  /\ r.collection = doc.collection
                  /\ r.record.source # "cache"
                  /\ last'.writes = <<[collection |-> doc.collection, id |-> doc.id]>>
       ]_vars

\* C4: a call scoped to the category 'cities' stored its record in another
\* collection than the one it looked in.
C4_StoredOutsideLookup ==
    /\ last.op = "searchLocation" /\ last.category = "cities"
    /\ last.outcome = "ok" /\ ~last.cacheHit
    /\ Len(last.writes) = 1
    /\ last.results[1].collection # LookupCollection(last.type, last.category)

\* C5: a searchLocation or searchCity call that ends in an error has written
\* nothing: the store is as it was before the call.
C5_ErrorWritesNothing ==
    [][ (last'.op \in {"searchLocation", "searchCity"} /\ last'.outcome = "error")
        => (firestore' = firestore /\ last'.writes = <<>>) ]_vars

\* C5: a searchLocation call failed on validation while the store held a
\* record.
C5_ErrorReached ==
    /\ last.op = "searchLocation"
    /\ last.outcome = "error" /\ last.error = "Invalid location data"
    /\ last.rejected = 1
    /\ Len(firestore) >= 1

\* C6: whatever the two enrichment adapters do (data, nothing, an exception),
\* enrichLocationData returns a merged record built from the OSM feature, and
\* a searchLocation call that reached enrichment validates that record and,
\* unless validation rejects it, persists it.
C6_EnrichmentNeverAborts ==
    /\ EnrichmentIsTotal
    /\ (last.op = "searchLocation" /\ last.wikipediaRequests + last.wikidataRequests > 0)
          => /\ last.validations = 1
             /\ last.outcome = "error" => last.rejected = 1
             /\ last.outcome = "ok" => Len(last.writes) = 1

\* C6: both enrichment requests of a searchLocation call failed and the call
\* persisted the record.
C6_BothFailedAndPersisted ==
    /\ last.op = "searchLocation"
    /\ last.absorbed = 2
    /\ last.outcome = "ok"
    /\ Len(last.writes) = 1
    /\ firestore[last.writes[1].id].data.description = <<>>

\* C7 (as claimed): a searchCity call that made an enrichment request went on
\* to validate the record and, unless validation rejected it, persisted and
\* returned it: no enrichment failure makes the call fail.
C7_CityEnrichmentNeverAborts ==
    (last.op = "searchCity" /\ last.wikipediaRequests + last.wikidataRequests > 0)
       => /\ last.validations = 1
          /\ last.outcome = "error" => last.rejected = 1
          /\ last.outcome = "ok" => Len(last.writes) = 1

\* C7: a searchCity call failed with the Wikipedia adapter's timeout error,
\* before validating or writing anything.
C7_WikipediaFailureAborts ==
    /\ last.op = "searchCity"
    /\ last.outcome = "error" /\ last.error = "Wikipedia API timeout"
    /\ last.wikipediaRequests = 1
    /\ last.validations = 0
    /\ last.writes = <<>>

\* C8: a searchCity call for a name the 'cities' collection already holds is
\* answered from the cache, with source 'cache', without any request or
\* write; and the collection never holds two records of one name.
C8_SecondCallIsCached ==
    [][ /\ (last'.op = "searchCity"
              /\ Matching(CITY_COLLECTION_NAME, last'.name, "") # {})
           => /\ last'.cacheHit
              /\ last'.outcome = "ok"
              /\ NoExternalWork(last')
              /\ Len(last'.results) = 1
              /\ last'.results[1].record.source = "cache"
              /\ firestore' = firestore
        /\ \A i, j \in 1..Len(firestore') :
              (i # j /\ firestore'[i].collection = CITY_COLLECTION_NAME
                     /\ firestore'[j].collection = CITY_COLLECTION_NAME)
                 => firestore'[i].data.name # firestore'[j].data.name ]_vars

\* C8: with two names persisted, a searchCity call was answered from the
\* cache.
C8_CachedAmongTwo ==
    /\ last.op = "searchCity" /\ last.cacheHit
    /\ Len(firestore) = 2
    /\ firestore[1].data.name # firestore[2].data.name

\* C9: when the cache query of searchAllLocations matches at least one
\* record, the call returns exactly the matching records, each with source
\* 'cache', and makes no Overpass request, no enrichment request and no write.
C9_CachedListOnly ==
    [][ (last'.op = "searchAllLocations" /\ last'.cacheHit)
        => LET collectionName == LookupCollection(last'.type, last'.category)
               hits == Matching(collectionName, last'.name, last'.type)
           IN  /\ hits # {}
               /\ firestore' = firestore
               /\ last'.outcome = "ok"
               /\ NoExternalWork(last')
               /\ Len(last'.results) = Cardinality(hits)
               /\ \A i \in hits :
                     \E k \in 1..Len(last'.results) :
                         last'.results[k] = Cached(i, collectionName) ]_vars

\* C9: a searchAllLocations call returned two cached records.
C9_TwoCachedReturned ==
    /\ last.op = "searchAllLocations" /\ last.cacheHit
    /\ Len(last.results) = 2
    /\ last.results[1].id # last.results[2].id
    /\ last.overpassRequests = 0

\* C10: in a cache-miss searchAllLocations a feature is skipped as a duplicate
\* exactly when a feature persisted earlier in the call lies within 0.001
\* degree of it in both axes; a skipped feature causes no enrichment request
\* and no write, and no two returned records are that close.
C10_DuplicatesSkipped ==
    (last.op = "searchAllLocations" /\ ~last.cacheHit)
       => LET p == last.processed
              persisted == { k \in 1..Len(p) : p[k].fate = "persisted" }
          IN  /\ \A k \in 1..Len(p) :
                    (p[k].fate = "duplicate")
                       <=> (\E j \in persisted : j < k /\ Near(p[j], p[k]))
              /\ \A k \in 1..Len(p) : p[k].fate = "duplicate" => p[k].requests = 0
              /\ last.wikipediaRequests + last.wikidataRequests = SumRequests(p)
              /\ Len(last.writes) = Cardinality(persisted)
              /\ Len(last.results) = Cardinality(persisted)
              /\ \A k, l \in 1..Len(last.results) :
                    k # l => ~Near(last.results[k].record, last.results[l].record)

\* C10: a batch with features at (42.0000, 23.0000), (42.01, 23.01) and
\* (42.0003, 23.0004): the first two were persisted, the third, which carries
\* a wikidata tag, was skipped without a request.
C10_ExampleBatch ==
    /\ last.op = "searchAllLocations" /\ ~last.cacheHit
    /\ Len(last.processed) = 3
    /\ last.processed[1].lat = 420000 /\ last.processed[1].lon = 230000
    /\ last.processed[1].fate = "persisted"
    /\ last.processed[2].lat = 420100 /\ last.processed[2].lon = 230100
    /\ last.processed[2].fate = "persisted"
    /\ last.processed[3].lat = 420003 /\ last.processed[3].lon = 230004
    /\ last.processed[3].fate = "duplicate"
    /\ last.processed[3].requests = 0
    /\ Len(last.results) = 2

\* C11: in a searchAllLocations call that missed the cache, a feature whose
\* merged record fails validation is skipped: nothing is written for it, the
\* call goes on to every feature the search returned, in order, and the call
\* succeeds when at least one feature was persisted.
C11_InvalidFeatureSkipped ==
    [][ ( /\ last'.op = "searchAllLocations"
          /\ ~last'.cacheHit
          /\ \E k \in 1..Len(last'.processed) : last'.processed[k].fate = "rejected" )
        => LET steps == last'.processed
               persisted == { k \in 1..Len(steps) : steps[k].fate = "persisted" }
           IN
           /\ last'.found = <<[k \in 1..Len(steps) |-> steps[k].osmId]>>
           /\ Len(last'.writes) = Cardinality(persisted)
           /\ Len(firestore') = Len(firestore) + Cardinality(persisted)
           /\ \A i \in 1..Len(firestore) : firestore'[i] = firestore[i]
           /\ (persisted # {} => last'.outcome = "ok")
           /\ (persisted = {} => last'.outcome = "error") ]_vars

\* A batch in which a feature was rejected and a later one persisted.
C11_PersistedAfterRejected ==
    /\ last.op = "searchAllLocations"
    /\ last.outcome = "ok"
    /\ \E k, j \in 1..Len(last.processed) :
          /\ k < j
          /\ last.processed[k].fate = "rejected"
          /\ last.processed[j].fate = "persisted"

C12_NothingPersisted ==
    /\ last.op = "searchAllLocations"
    /\ last.found # <<>>
    /\ last.rejected > 0
    /\ last.outcome = "error"

\* The conditions getInfo retries on: a 5xx or 429 status, the fetch timeout,
\* a network error.
Retryable == {"status5xx", "status429", "abort", "neterr"}

\* C13: getInfo issues at most three requests; after attempt k (k = 1, 2)
\* ends in a retryable condition it sleeps 1000 * 2^(k-1) ms and issues
\* attempt k+1; responses 503, 503, 200 give three requests, the delays
\* 1000 and 2000, and the facts.
C13_RetriesWithBackoff ==
    last.op = "getInfo" =>
      LET r == last.result
          o == last.outcomes
      IN
      /\ r.requests <= 3
      /\ Len(o) = r.requests
      /\ \A k \in 1..2 :
            (k <= r.requests /\ o[k] \in Retryable) =>
              LET n == Cardinality({ j \in 1..k : o[j] \in Retryable })
              IN  /\ r.requests >= k + 1
                  /\ Len(r.delays) >= n
                  /\ r.delays[n] = 1000 * (2 ^ (k - 1))
      /\ Len(r.delays) = Cardinality({ j \in 1..2 : j <= r.requests /\ o[j] \in Retryable })
      /\ (o = <<"status5xx", "status5xx", "ok">> =>
            /\ r.delays = <<1000, 2000>>
            /\ ~r.threw
            /\ r.value # <<>>)

\* The call that got 503, 503, 200.
C13_ThirdAttemptSucceeded ==
    /\ last.op = "getInfo"
    /\ last.outcomes = <<"status5xx", "status5xx", "ok">>
    /\ last.result.requests = 3
    /\ last.result.value # <<>>

\* C14: an error that is not retryable (a malformed body, for one) leaves
\* getInfo at once: the call throws and the request that raised it is the
\* last one.
C14_NonRetryablePropagates ==
    last.op = "getInfo" =>
      \A k \in 1..Len(last.outcomes) :
          last.outcomes[k] = "other" =>
            /\ last.result.threw
            /\ last.result.requests = k

\* A call whose first response had a malformed body and which went on to a
\* second request and returned its facts.
C14_ErrorSwallowed ==
    /\ last.op = "getInfo"
    /\ last.outcomes = <<"other", "ok">>
    /\ ~last.result.threw
    /\ last.result.requests = 2
    /\ last.result.delays = <<>>

\* C15: when all three attempts end in a retryable condition getInfo throws
\* an error of its own; it does not return nothing.
C15_ExhaustionThrows ==
    ( /\ last.op = "getInfo"
      /\ Len(last.outcomes) = 3
      /\ \A k \in 1..3 : last.outcomes[k] \in Retryable )
    => /\ last.result.threw
       /\ last.result.error \in { "Wikidata API timeout after 3 attempts",
                                   "Wikidata network error (after 3 attempts)" }

\* Three 503 responses: getInfo returned null.
C15_ExhaustedSilently ==
    /\ last.op = "getInfo"
    /\ last.outcomes = <<"status5xx", "status5xx", "status5xx">>
    /\ ~last.result.threw
    /\ last.result.value = <<>>

\* C16: a 4xx status other than 429 is not retried: it is the last request
\* of the call and no delay follows it; as the first response it makes the
\* call one request and no delay.
C16_ClientErrorNotRetried ==
    last.op = "getInfo" =>
      /\ \A k \in 1..Len(last.outcomes) :
            last.outcomes[k] = "status4xx" => last.result.requests = k
      /\ ( Len(last.outcomes) >= 1 /\ last.outcomes[1] = "status4xx" ) =>
            /\ last.result.requests = 1
            /\ last.result.delays = <<>>

\* The call that got a 404 at once.
C16_NotFoundAtOnce ==
    /\ last.op = "getInfo"
    /\ last.outcomes = <<"status4xx">>
    /\ last.result.requests = 1
    /\ ~last.result.threw

\* What the i-th stage of the progressive search of the last call got, or
\* would have got: the places, natural and cultural queries in this order.
StageResult(i) ==
    executeQuery(CASE i = 1 -> buildPlacesQuery(last.term)
                   [] i = 2 -> buildNaturalQuery(last.term)
                   [] OTHER -> buildCulturalQuery(last.term),
                 last.world, IF i <= Len(last.faults) THEN last.faults[i] ELSE "ok")

\* The stage returned at least one feature.
Productive(i) == ~StageResult(i).threw /\ Len(StageResult(i).value) > 0

\* C17: a search with neither type nor category issues the places, natural
\* and cultural queries in this order, a stage only when every earlier one
\* returned nothing or threw; the result is that of the first stage that
\* returned a feature, and no stage is issued after it.
C17_ProgressiveStages ==
    ( last.op = "search" /\ last.type = "" /\ last.category = "" ) =>
      LET stages == last.result.stages
          n == Len(stages)
      IN
      /\ n \in 1..3
      /\ stages = SubSeq(<<"places", "natural", "cultural">>, 1, n)
      /\ \A i \in 1..(n - 1) : ~Productive(i)
      /\ n < 3 => Productive(n)
      /\ Productive(n) => /\ ~last.result.threw
                          /\ last.result.value = StageResult(n).value
      /\ ~Productive(n) => last.result.value = <<>>

\* A search whose places request failed and whose natural stage gave the
\* result: two requests.
C17_SecondStageAnswered ==
    /\ last.op = "search" /\ last.type = "" /\ last.category = ""
    /\ last.faults = <<"status500", "ok">>
    /\ last.result.stages = <<"places", "natural">>
    /\ Len(last.result.value) > 0

\* C18: when the request a search failed on was aborted by the timeout, the
\* error of the search is 'Overpass API timeout', whether the search had a
\* type, a category or neither.
C18_TimeoutSurfaced ==
    ( /\ last.op = "search"
      /\ last.result.threw
      /\ last.faults[Len(last.faults)] = "timeout" )
    => last.result.error = "Overpass API timeout"

\* A search with neither type nor category whose three requests timed out
\* and which failed with the no-results error.
C18_TimeoutReportedAsNoResults ==
    /\ last.op = "search" /\ last.type = "" /\ last.category = ""
    /\ last.faults = <<"timeout", "timeout", "timeout">>
    /\ last.result.threw
    /\ last.result.error = "No results found"

\* Searches with a type or a category do surface the timeout.
C18_ScopedTimeoutSurfaced ==
    ( /\ last.op = "search"
      /\ last.type # "" \/ last.category # ""
      /\ last.faults = <<"timeout">> )
    => /\ last.result.threw
       /\ last.result.error = "Overpass API timeout"

\* C19: searchLocation, searchAllLocations and searchCity fail with their
\* name-required error, before any cache query and any Overpass request,
\* whenever the name is absent or is empty once trimmed.
C19_BlankNameRejected ==
    ( /\ last.op \in {"searchLocation", "searchAllLocations", "searchCity"}
      /\ ~last.name.isString \/ Trim(last.name.str) = <<>> )
    => /\ last.outcome = "error"
       /\ last.error \in {"Location name is required", "City name is required"}
       /\ last.cacheQueries = 0
       /\ last.overpassRequests = 0

\* A call with a name of one space: the cache was queried, Overpass was
\* asked, and the error is not the name-required one.
C19_BlankNameSearched ==
    /\ last.op = "searchLocation"
    /\ last.name = [isString |-> TRUE, str |-> <<" ">>]
    /\ last.cacheQueries = 1
    /\ last.overpassRequests > 0
    /\ last.error = "No results found"

\* C20: get_location_by_id without a collection finds every record stored
\* in one of the five partitions and returns it with its partition; it
\* reports not-found only when none of the five holds the id.
C20_FoundInEveryPartition ==
    ( /\ last.op = "getLocationById"
      /\ last.collection = ""
      /\ last.id # <<>> )
    => LET held == { i \in 1..Len(firestore) :
                       /\ firestore[i].id = last.id[1]
                       /\ firestore[i].collection \in
                            {"cities", "mountains", "peaks", "natural_sites",
                             "cultural_sites"} }
       IN  IF held = {}
           THEN last.outcome = "error" /\ last.error = "Location not found"
           ELSE /\ last.outcome = "ok"
                /\ \E i \in held :
                      last.results = << [ record |-> firestore[i].data,
                                          id |-> firestore[i].id,
                                          collection |-> firestore[i].collection ] >>

\* A peak is stored, and the lookup of its id without a collection reported
\* not-found.
C20_StoredPeakNotFound ==
    /\ last.op = "getLocationById"
    /\ last.collection = ""
    /\ last.outcome = "error"
    /\ last.error = "Location not found"
    /\ \E i \in 1..Len(firestore) :
          /\ <<firestore[i].id>> = last.id
          /\ firestore[i].collection = "peaks"
          /\ firestore[i].data.type = "peak"

\* Records outside the peaks partition are found by id alone.
C20_FoundOutsidePeaks ==
    ( /\ last.op = "getLocationById"
      /\ last.collection = ""
      /\ last.id # <<>>
      /\ \E i \in 1..Len(firestore) :
            /\ <<firestore[i].id>> = last.id
            /\ firestore[i].collection \in
                  {"cities", "mountains", "natural_sites", "cultural_sites"} )
    => /\ last.outcome = "ok"
       /\ \E i \in 1..Len(firestore) :
             last.results = << [ record |-> firestore[i].data,
                                 id |-> firestore[i].id,
                                 collection |-> firestore[i].collection ] >>

C22_CategoryToolsReturnTheirTypes ==
    ( /\ last.op \in {"searchLocation", "searchAllLocations"}
      /\ last.type = ""
      /\ last.category \in {"cities", "mountains", "peaks", "natural_sites"}
      /\ last.outcome = "ok" )
    => \A k \in 1..Len(last.results) :
          /\ last.results[k].record.type \in LOCATION_CATEGORIES(last.category)
          /\ last.results[k].collection = last.category

\* search_mountains returned a town, stored with the cities.
C22_MountainSearchReturnedTown ==
    /\ last.op = "searchLocation"
    /\ last.category = "mountains"
    /\ last.outcome = "ok"
    /\ Len(last.results) = 1
    /\ last.results[1].record.type = "town"
    /\ last.results[1].collection = "cities"
    /\ \E i \in 1..Len(firestore) :
          firestore[i].collection = "cities" /\ firestore[i].data.type = "town"

\* C23: no record whose type is outside LOCATION_TYPES is ever stored: the
\* Validation Gate rejects it.
C23_StoredTypesAreKnown ==
    \A i \in 1..Len(firestore) : firestore[i].data.type \in LOCATION_TYPES

\* searchCity stored and returned a record of type hamlet, which passed
\* validateCityData.
C23_HamletStored ==
    /\ last.op = "searchCity"
    /\ last.outcome = "ok"
    /\ last.validations = 1
    /\ last.rejected = 0
    /\ \E i \in 1..Len(firestore) :
          /\ firestore[i].data.type = "hamlet"
          /\ firestore[i].data.type \notin LOCATION_TYPES
          /\ validateCityData(firestore[i].data).valid

\* The fields of the last record handed to the gate that fail their check:
\* name a non-empty string, lat a number in [-90, 90], lon a number in
\* [-180, 180], type a non-empty string.
FailedChecks ==
    LET d == last.data
    IN  { f \in {"name", "lat", "lon", "type"} :
            \/ f = "name" /\ ~(d.name.t = "string" /\ Len(d.name.s) > 0)
            \/ f = "lat" /\ ~(d.lat.t = "number" /\ d.lat.n >= -900000 /\ d.lat.n <= 900000)
            \/ f = "lon" /\ ~(d.lon.t = "number" /\ d.lon.n >= -1800000
                                                   /\ d.lon.n <= 1800000)
            \/ f = "type" /\ ~(d.type.t = "string" /\ Len(d.type.s) > 0) }

TypeRules(tags) ==
    << [ applies |-> tags.place # "", gives |-> tags.place ],
       [ applies |-> tags.natural \in {"mountain_range", "peak", "cave", "cave_entrance",
                                        "waterfall"},
         gives |-> IF tags.natural = "cave_entrance" THEN "cave" ELSE tags.natural ],
       [ applies |-> tags.tourism # "",
         gives |-> IF tags.tourism \in {"alpine_hut", "viewpoint", "museum", "attraction"}
                   THEN tags.tourism ELSE "attraction" ],
       [ applies |-> tags.historic # "",
         gives |-> IF tags.historic \in {"castle", "fort", "ruins", "archaeological_site",
                                          "monastery", "memorial", "church"}
                   THEN tags.historic ELSE "historical_site" ],
       [ applies |-> tags.amenity = "place_of_worship",
         gives |-> IF tags.religion = "christian" THEN "church" ELSE "place_of_worship" ],
       [ applies |-> TRUE, gives |-> "unknown" ] >>

\* C25: determineType returns what the first rule that applies gives, in the
\* order place, natural, tourism, historic, place of worship, unknown, for
\* every tag set, also one carrying several of the tags.
C25_FirstRuleWins ==
    last.op = "determineType" =>
      LET rules == TypeRules(last.tags)
          first == CHOOSE k \in 1..Len(rules) :
                      rules[k].applies /\ \A j \in 1..(k - 1) : ~rules[j].applies
      IN
      /\ last.result = rules[first].gives
      /\ last.tags = [NoTags EXCEPT !.historic = "castle"] => last.result = "castle"
      /\ last.tags = [NoTags EXCEPT !.tourism = "zoo"] => last.result = "attraction"
      /\ last.tags = NoTags => last.result = "unknown"
      /\ last.tags = [NoTags EXCEPT !.amenity = "place_of_worship",
                                     !.religion = "christian"] => last.result = "church"
      /\ last.tags = [NoTags EXCEPT !.amenity = "place_of_worship"]
            => last.result = "place_of_worship"

\* A tag set with a tourism and a historic tag: the tourism rule decided.
C25_TourismBeforeHistoric ==
    /\ last.op = "determineType"
    /\ last.tags.place = "" /\ last.tags.natural = "tree"
    /\ last.tags.tourism = "zoo" /\ last.tags.historic = "castle"
    /\ last.result = "attraction"

\* The types the type-to-partition table has a row for.
TableTypes ==
    { "city", "town", "village", "mountain_range", "peak", "cave", "waterfall",
      "alpine_hut", "viewpoint", "museum", "attraction", "castle", "fort", "ruins",
      "archaeological_site", "monastery", "memorial", "church", "historical_site" }

\* C26: getCollectionForType always returns one of the five partitions,
\* cultural_sites for a type the table has no row for; and the category
\* table is its inverse: a known type is listed under its partition, and a
\* type listed under a category maps to that category.
C26_PartitionTotalAndInverse ==
    last.op = "getCollectionForType" =>
      /\ last.collection \in {"cities", "mountains", "peaks", "natural_sites",
                               "cultural_sites"}
      /\ last.type \notin TableTypes => last.collection = "cultural_sites"
      /\ last.type \in LOCATION_TYPES =>
            last.type \in LOCATION_CATEGORIES(last.collection)
      /\ last.listed => last.collection = last.category

\* The type 'constructor': what is returned is no partition.
C26_InheritedKeyReturned ==
    /\ last.op = "getCollectionForType"
    /\ last.type = "constructor"
    /\ last.collection \notin COLLECTIONS
    /\ last.collection # "cultural_sites"

\* For every type that is no inherited key the claim holds.
C26_HoldsForOwnKeys ==
    ( last.op = "getCollectionForType" /\ last.type \notin ObjectPrototypeKeys ) =>
      /\ last.collection \in COLLECTIONS
      /\ last.type \notin TableTypes => last.collection = "cultural_sites"
      /\ last.type \in LOCATION_TYPES =>
            last.type \in LOCATION_CATEGORIES(last.collection)
      /\ last.listed => last.collection = last.category

\* What an adapter's answer says of one field: the value, or nothing when
\* the adapter returned null or the answer lacks the field.
Answered(answer, f) == IF answer = <<>> THEN <<>> ELSE answer[1][f]

\* A text that is there: present and not empty.
HasText(x) == x # <<>> /\ x[1] # ""

\* The precedence of the merge for every field but the elevation.
MergePrecedence ==
    LET o == last.osm
        wp == last.wikipedia
        wd == last.wikidata
        r == last.record
        pictures == Answered(wp, "image") \o Answered(wp, "thumbnail")
                    \o (IF wd = <<>> THEN <<>> ELSE wd[1].images)
    IN  /\ r.name = o.name /\ r.type = o.type /\ r.lat = o.lat /\ r.lon = o.lon
        /\ IF HasText(Answered(wp, "description"))
           THEN r.description = Answered(wp, "description")
           ELSE IF HasText(Answered(wd, "description"))
                THEN r.description = Answered(wd, "description")
                ELSE r.description = <<>>
        /\ r.wikipediaUrl \in {<<>>, Answered(wp, "url")}
        /\ r.wikipediaLang \in {<<>>, Answered(wp, "lang")}
        /\ r.population \in {<<>>, Answered(wd, "population")}
        /\ r.area \in {<<>>, Answered(wd, "area")}
        /\ r.officialWebsite \in {<<>>, Answered(wd, "officialWebsite")}
        /\ r.images = SelectSeq(pictures, LAMBDA u : u # "")

\* C27: in a merged record the description is the Wikipedia extract when
\* there is one and the Wikidata description otherwise; the Wikipedia url
\* and language come from Wikipedia only; population, area and official
\* website come from Wikidata only; name, type and coordinates come from
\* OSM; the images are the Wikipedia image, the thumbnail and the Wikidata
\* images in that order without the absent ones; and the elevation is the
\* value of Wikidata when Wikidata has one, else the integer parsed from
\* the OSM ele tag.
C27_MergePrecedence ==
    last.op = "merge" =>
        /\ MergePrecedence
        /\ IF Answered(last.wikidata, "elevation") # <<>>
           THEN last.record.elevation = Answered(last.wikidata, "elevation")
           ELSE last.record.elevation =
                    (IF last.osm.osmTags.ele # <<>>
                     THEN ParseInt(last.osm.osmTags.ele) ELSE <<>>)

\* A merge of a feature that has an ele tag with an entity whose elevation
\* Wikidata gives as 0: the merged elevation is the one parsed from the tag.
C27_SeaLevelOverridden ==
    /\ last.op = "merge"
    /\ Answered(last.wikidata, "elevation") = <<0>>
    /\ last.osm.osmTags.ele # <<>>
    /\ last.record.elevation = ParseInt(last.osm.osmTags.ele)
    /\ last.record.elevation # <<0>>

\* Everything of C27 but the elevation holds of every merge, and the
\* elevation holds whenever the value of Wikidata is not 0.
C27_HoldsButForZero ==
    last.op = "merge" =>
        /\ MergePrecedence
        /\ Answered(last.wikidata, "elevation") \notin {<<>>, <<0>>}
               => last.record.elevation = Answered(last.wikidata, "elevation")
        /\ Answered(last.wikidata, "elevation") = <<>>
               => last.record.elevation =
                      (IF last.osm.osmTags.ele # <<>>
                       THEN ParseInt(last.osm.osmTags.ele) ELSE <<>>)

\* C28: the images of a merged record are a deduplicated union: no entry is
\* empty and no URL occurs twice, also when the Wikipedia image, the
\* thumbnail and a Wikidata image are one URL.
C28_ImagesDeduplicated ==
    last.op = "merge" =>
        LET images == last.record.images
        IN  /\ \A i \in 1..Len(images) : images[i] # ""
            /\ \A i, j \in 1..Len(images) : images[i] = images[j] => i = j

\* A merge where Wikipedia gives one URL as image and as thumbnail and
\* Wikidata lists the same URL: the merged record holds it three times.
C28_SameUrlThreeTimes ==
    /\ last.op = "merge"
    /\ Answered(last.wikipedia, "image") = Answered(last.wikipedia, "thumbnail")
    /\ Answered(last.wikipedia, "image") # <<>>
    /\ last.wikidata # <<>>
    /\ \E i \in 1..Len(last.wikidata[1].images) :
           <<last.wikidata[1].images[i]>> = Answered(last.wikipedia, "image")
    /\ Cardinality({ i \in 1..Len(last.record.images) :
                       <<last.record.images[i]>> = Answered(last.wikipedia, "image") }) = 3

\* No entry of the images of a merged record is empty, and the URLs are
\* those the two adapters gave.
C28_NoEmptyImage ==
    last.op = "merge" =>
        LET images == last.record.images
            wd == IF last.wikidata = <<>> THEN <<>> ELSE last.wikidata[1].images
            given == { <<wd[k]>> : k \in 1..Len(wd) }
                     \cup {Answered(last.wikipedia, "image"),
                           Answered(last.wikipedia, "thumbnail")}
        IN  \A i \in 1..Len(images) : images[i] # "" /\ <<images[i]>> \in given

\* C29: every Overpass query embeds escapeSearchTerm(term), never the raw
\* term: each name filter of the queries of searchByName, searchCities,
\* searchMountains, searchPeaks, searchNaturalSites, searchCulturalSites
\* and the cities server's searchByName is `["name"="<escaped term>"]`.
C29_QueriesEmbedEscapedTerm ==
    last.op = "query" =>
        /\ last.filters # {}
        /\ \A f \in last.filters : f = NameFilter(escapeSearchTerm(last.term))

\* searchPeaks building its query for a term that holds a double quote: the
\* name filter has the quote as typed, without a backslash before it.
C29_RawQuoteEmbedded ==
    /\ last.op = "query"
    /\ last.fn = "searchPeaks"
    /\ \E i \in 1..Len(last.term) : last.term[i] = "\""
    /\ NameFilter(last.term) \in last.filters
    /\ NameFilter(escapeSearchTerm(last.term)) \notin last.filters

\* Every name filter of every query embeds the term as it was given, so it
\* is the escaped term exactly when the term has no special character.
C29_QueriesEmbedRawTerm ==
    last.op = "query" =>
        /\ last.filters = { NameFilter(last.term) }
        /\ (\A i \in 1..Len(last.term) : last.term[i] \notin SpecialChars)
               => last.filters = { NameFilter(escapeSearchTerm(last.term)) }

\* The number of special characters among the first n of a string.
RECURSIVE SpecialsBefore(_, _)
SpecialsBefore(str, n) ==
    IF n = 0 THEN 0
    ELSE SpecialsBefore(str, n - 1) + (IF str[n] \in SpecialChars THEN 1 ELSE 0)

\* C30: escapeSearchTerm puts exactly one backslash before each backslash,
\* double quote, bracket, parenthesis and . * + ? ^ $ { } |, leaves every
\* other character as it is, never escapes a backslash it inserted, and so
\* returns a string as long as the input plus its special characters.
C30_OneBackslashPerSpecial ==
    last.op = "escape" =>
        LET in == last.term
            out == last.escaped
            at(i) == i + SpecialsBefore(in, i)
        IN  /\ Len(out) = Len(in) + SpecialsBefore(in, Len(in))
            /\ \A i \in 1..Len(in) :
                   /\ out[at(i)] = in[i]
                   /\ in[i] \in SpecialChars => out[at(i) - 1] = "\\"

\* The term of the four characters a, backslash, double quote, b is
\* escaped to six: a, backslash, backslash, backslash, double quote, b.
C30_BackslashQuoteEscaped ==
    /\ last.op = "escape"
    /\ last.term = <<"a", "\\", "\"", "b">>
    /\ last.escaped = <<"a", "\\", "\\", "\\", "\"", "b">>

\* C31: in the enrichment the Wikipedia and Wikidata requests of a feature
\* are issued concurrently: while the Wikipedia request is in flight the
\* Wikidata request of a feature that has a usable wikidata tag has been
\* sent as well, and the merge is built only after both have ended.
C31_RequestsIssuedTogether ==
    last.op = "enrich" =>
        /\ (last.wikipedia = "inflight" /\ WikidataSends(last.osm.wikidata))
               => last.wikidata \in {"inflight", "done"}
        /\ last.merged # <<>>
               => last.wikipedia # "inflight" /\ last.wikidata # "inflight"

\* The Wikipedia request of a feature with both tags is in flight and the
\* Wikidata adapter has not been called yet.
C31_WikidataWaits ==
    /\ last.op = "enrich"
    /\ last.wikipedia = "inflight"
    /\ WikidataSends(last.osm.wikidata)
    /\ last.wikidata = "idle"
    /\ \A i \in 1..Len(last.calls) : last.calls[i].adapter # "wikidata"

\* The two requests are never in flight together, and the merge is built
\* only after both have ended.
C31_NeverBothInFlight ==
    last.op = "enrich" =>
        /\ ~(last.wikipedia = "inflight" /\ last.wikidata = "inflight")
        /\ last.wikidata # "idle" => last.wikipedia # "inflight"
        /\ last.merged # <<>>
               => last.wikipedia # "inflight" /\ last.wikidata # "inflight"

\* The calls of the enrichment so far to one adapter.
CallsTo(adapter) ==
    SelectSeq(last.calls, LAMBDA c : c.adapter = adapter)

\* C32: an enrichment adapter is invoked only when the feature carries its
\* tag, with that tag as identifier and never with an empty one; and an
\* adapter handed a malformed identifier (no ':' for Wikipedia, no leading
\* 'Q' for Wikidata) returns nothing and sends no request.
C32_AdaptersCalledWithTagsOnly ==
    last.op = "enrich" =>
        /\ \A i \in 1..Len(last.calls) :
               /\ last.calls[i].id # <<>>
               /\ last.calls[i].adapter = "wikipedia" => last.calls[i].id = last.osm.wikipedia
               /\ last.calls[i].adapter = "wikidata" => last.calls[i].id = last.osm.wikidata
        /\ last.osm.wikipedia = <<>> => CallsTo("wikipedia") = <<>>
        /\ last.osm.wikidata = <<>> => CallsTo("wikidata") = <<>>
        /\ Len(CallsTo("wikipedia")) <= 1 /\ Len(CallsTo("wikidata")) <= 1
        /\ ~Includes(last.osm.wikipedia, ":")
               => last.requests.wikipedia = 0 /\ last.wikipediaData = <<>>
                  /\ last.wikipedia # "inflight"
        /\ ~StartsWith(last.osm.wikidata, "Q")
               => last.requests.wikidata = 0 /\ last.wikidataData = <<>>
                  /\ last.wikidata # "inflight"

\* The enrichment of a feature whose wikipedia tag has no ':' and whose
\* wikidata tag starts with 'Q' has ended: the Wikipedia adapter was called
\* with the tag and sent nothing, the Wikidata adapter sent its request.
C32_MalformedTagNotRequested ==
    /\ last.op = "enrich"
    /\ last.pc = "done"
    /\ last.osm.wikipedia # <<>> /\ ~Includes(last.osm.wikipedia, ":")
    /\ Len(CallsTo("wikipedia")) = 1
    /\ last.requests.wikipedia = 0
    /\ last.requests.wikidata > 0

\* C33: no tool deletes or modifies a record of the store: every step
\* leaves the records there were as they were, in place, and at most adds
\* new ones after them; get_location_by_id and list_locations leave the
\* store unchanged.
C33_StoreOnlyGrows ==
    [][ /\ Len(firestore') >= Len(firestore)
        /\ \A i \in 1..Len(firestore) : firestore'[i] = firestore[i]
        /\ last'.op \in {"getLocationById", "listLocations", "unknownTool"}
               => firestore' = firestore ]_vars

\* A search tool has just inserted a record into a store that held one
\* already.
C33_InsertedBesideExisting ==
    /\ last.op \in {"searchLocation", "searchAllLocations"}
    /\ last.outcome = "ok"
    /\ last.writes # <<>>
    /\ Len(firestore) > Len(last.writes)

C37_LoopNeverFallsThrough ==
    last.op = "getInfo" =>
        /\ last.result.error # "fellthrough"
        /\ last.result.requests <= MAX_RETRY_ATTEMPTS
        /\ \/ last.result.threw /\ last.result.error # "" /\ last.result.value = <<>>
           \/ ~last.result.threw /\ last.result.value = <<>>
           \/ ~last.result.threw /\ last.result.value = <<WikidataFacts(last.id)>>
        /\ last.result.threw => last.result.requests = MAX_RETRY_ATTEMPTS

\* Three requests that each failed with an error of another kind (such as
\* a malformed body): the third one is rethrown.
C37_OtherErrorRethrown ==
    /\ last.op = "getInfo"
    /\ last.outcomes = <<"other", "other", "other">>
    /\ last.result.threw
    /\ last.result.error = "Wikidata fetch error"

\* C38: searchAllLocations is not all-or-nothing: when the insert of a
\* feature fails, the call ends with that error, no later feature is
\* processed, and the records the call inserted before are in the store,
\* after the records there were, exactly as they were written.
C38_NoRollback ==
    [][ (last'.op = "searchAllLocations" /\ last'.error = "Firestore unavailable") =>
          /\ last'.outcome = "error"
          /\ Len(firestore') = Len(firestore) + Len(last'.writes)
          /\ \A i \in 1..Len(firestore) : firestore'[i] = firestore[i]
          /\ \A k \in 1..Len(last'.writes) :
                /\ last'.writes[k].id = Len(firestore) + k
                /\ firestore'[Len(firestore) + k].collection = last'.writes[k].collection
                /\ firestore'[Len(firestore) + k].data.name = Trim(last'.name.str)
          /\ last'.processed[Len(last'.processed)].fate = "failed" ]_vars

\* The insert of a later feature of a batch failed: the call returned the
\* error, and the store holds the record of an earlier feature of the batch
\* but not all the features found.
C38_PartialBatchStored ==
    /\ last.op = "searchAllLocations"
    /\ last.outcome = "error"
    /\ last.error = "Firestore unavailable"
    /\ last.writes # <<>>
    /\ Len(last.writes) < Len(last.found[1])
    /\ \A k \in 1..Len(last.writes) :
          /\ last.writes[k].id \in 1..Len(firestore)
          /\ firestore[last.writes[k].id].collection = last.writes[k].collection

\* The admitted requests of a client in the window that ends at `now`.
AdmittedInWindow(st, ip, now) ==
    Cardinality({ k \in 1..Len(st.admitted[ip]) : now - st.admitted[ip][k] < RATE_WINDOW })

\* Of the admitted requests of each client, the eleventh after any one comes
\* a full window later or more.
AtMostLimitPerWindow ==
    \A ip \in ClientIPs :
        \A k \in 1..Len(RateState.admitted[ip]) :
            k + RATE_LIMIT <= Len(RateState.admitted[ip])
               => RateState.admitted[ip][k + RATE_LIMIT] - RateState.admitted[ip][k]
                     >= RATE_WINDOW

\* A request is rejected exactly when the client has RATE_LIMIT admitted
\* requests in the window; a rejection changes nothing the limiter keeps;
\* an admission changes the list of that client only.
DecidedByOwnAdmissions ==
    last'.op = "rate" =>
        /\ last'.limited <=>
               AdmittedInWindow(RateState, last'.ip, last'.now) >= RATE_LIMIT
        /\ last'.limited => last'.requestCounts = RateState.requestCounts
        /\ \A other \in ClientIPs \ {last'.ip} :
               last'.requestCounts[other] = RateState.requestCounts[other]

\* C39: the rate limiter admits at most RATE_LIMIT requests of a client in
\* any period of RATE_WINDOW; a rejected request is not recorded and does
\* not postpone the next admission; and the requests of one client never
\* change whether a request of another is admitted.
C39_RateLimitPerClient ==
    []AtMostLimitPerWindow /\ [][DecidedByOwnAdmissions]_vars

\* The eleventh request of a client is admitted exactly one window after
\* its first, the other client having been admitted meanwhile.
C39_AdmittedAgainAfterWindow ==
    /\ last.op = "rate"
    /\ ~last.limited
    /\ Len(last.admitted[last.ip]) = RATE_LIMIT + 1
    /\ last.now - last.admitted[last.ip][1] = RATE_WINDOW
    /\ \E other \in ClientIPs \ {last.ip} : last.admitted[other] # <<>>

Running == last.op = "run" /\ last.pc # "returned"

\* Within a call the position only moves forward: the stage of the search
\* and the attempt of the retry loop go up by one at a time, and the number
\* of features left goes down.
RunAdvances ==
    (Running /\ last'.op = "run") =>
        /\ last'.stage >= last.stage
        /\ (last.pc = "overpass" /\ last'.pc = "overpass") => last'.stage = last.stage + 1
        /\ (last.pc \in {"wikidata", "sleep"} /\ last'.pc \in {"wikidata", "sleep"})
              => \/ last'.attempt = last.attempt + 1
                 \/ last'.attempt = last.attempt /\ last'.pc # last.pc
        /\ last'.pc = "overpass" => last.pc \in {"cache", "overpass"}
        /\ last'.pc = "cache" => FALSE
        /\ (last.pc \notin {"cache", "overpass"} /\ last'.pc # "returned")
              => last'.left <= last.left

\* C35: every started searchLocation, searchAllLocations or searchCity call
\* eventually returns a result or an error, given that every request
\* responds or is aborted, the store answers and the timers fire; the
\* Wikidata retry loop makes at most MAX_RETRY_ATTEMPTS attempts, the
\* progressive search at most 3 stages, and no stage is entered again.
C35_CallsTerminate ==
    /\ (Running ~> (last.op = "run" /\ last.pc = "returned" /\ last.outcome \in {"ok", "error"}))
    /\ [](last.op = "run" => last.attempt <= MAX_RETRY_ATTEMPTS /\ last.stage <= 3)
    /\ [][RunAdvances]_vars

\* A batch search at the third attempt of the Wikidata adapter for its
\* second feature, after a progressive search that reached its third stage.
C35_DeepInACall ==
    /\ last.op = "run"
    /\ last.fn = "searchAllLocations"
    /\ last.pc = "wikidata"
    /\ last.attempt = MAX_RETRY_ATTEMPTS
    /\ last.stage = 3
    /\ last.saved = 1

====
